---- MODULE Spec2Model ----
(***************************************************************************)
(* State-machine model of the cyh-terminal session engine:                 *)
(*   - the Session Registry / Event Store (SessionManager over SQLite),    *)
(*   - the Live Hub (rooms, viewers, permission flags),                    *)
(*   - the PTY bridge of one terminal WebSocket connection,                *)
(*   - the container selection of the bridge in docker mode.               *)
(* Each part has its own specification (SpecRegistry, SpecHub, SpecBridge, *)
(* SpecContainer); all of them share the variables below.                  *)
(***************************************************************************)
EXTENDS Integers, Sequences, FiniteSets, TLC

(***************************************************************************)
(* Bounds of the model.                                                    *)
(***************************************************************************)
MaxTime == 1
MaxEvents == 2
MaxDuration == 1

(***************************************************************************)
(* Finite value sets.                                                      *)
(***************************************************************************)
Null == "NULL"
NullTime == 0 - 1
NoRow == [none |-> "row"]
NoHandle == [none |-> "handle"]
Nil == "nil"
ErrNoRows == "sql: no rows in result set"
ErrConstraint == "constraint failed"

Users == {"alice", "bob"}
SessionIDs == {"s1", "s2"}
Tokens == {"t1", "t2"}
TermModes == {"local", "docker"}
EventTypes == {"output", "input", "resize"}
Payloads == {"a", "b"}
Times == 0..MaxTime

PermissionViewOnly == "view_only"
PermissionSharedControl == "shared_control"
PermissionInstructor == "instructor"
PermissionModes == {PermissionViewOnly, PermissionSharedControl, PermissionInstructor}

(***************************************************************************)
(* Strings as rune sequences (TLC cannot look inside a string).            *)
(***************************************************************************)
Runes(s) ==
    CASE s = "alice" -> <<"a", "l", "i", "c", "e">>
      [] s = "bob"   -> <<"b", "o", "b">>
      [] s = "Bob"   -> <<"B", "o", "b">>
      [] s = "b.b"   -> <<"b", ".", "b">>
      [] s = "guest" -> <<"g", "u", "e", "s", "t">>
      [] s = "s1"    -> <<"1">>
      [] s = "s2"    -> <<"2">>
      [] s = ""      -> <<>>
      [] s = "a"     -> <<"a">>
      [] s = "b"     -> <<"b">>
      [] s = "ab"    -> <<"a", "b">>

VARIABLES
    term_sessions,   \* table term_sessions: id -> row | NoRow
    terminal_logs,   \* table terminal_logs in rowid order
    activeSessions,  \* SessionManager.activeSessions: id -> handle | NoHandle
    now,             \* the wall clock, in milliseconds
    ret,             \* what the last SessionManager call returned
    call,            \* callers inside EndSession, between its lock and its UPDATE
    rooms,           \* LiveHub.rooms: session id -> room | NoRoom
    viewers,         \* the LiveViewer objects: connection -> viewer | NoViewer
    register,        \* channel LiveHub.register
    unregister,      \* channel LiveHub.unregister
    broadcast,       \* channel LiveHub.broadcast
    hubpc,           \* where the goroutine of LiveHub.run stands
    frame,           \* where every other goroutine that uses the hub stands
    panicked,        \* a goroutine has panicked: the process is gone
    bridge,          \* the locals of handleTerminal for one connection
    wsOut,           \* the frames written to the terminal WebSocket
    pending,         \* the AddEvent goroutines started and not yet run
    cleanup          \* where each run of the cleanup closure stands

regVars == <<term_sessions, terminal_logs, activeSessions, now, ret, call>>

hubVars == <<rooms, viewers, register, unregister, broadcast, hubpc, frame,
             panicked>>

restVars == <<bridge, wsOut, pending, cleanup>>

otherVars == <<hubVars, restVars>>

vars == <<regVars, otherVars>>

(***************************************************************************)
(* Helpers.                                                                *)
(***************************************************************************)
Max0(x) == IF x < 0 THEN 0 ELSE x

\* GenerateID / GenerateShareToken: crypto/rand, any value may come out.
GenerateID == SessionIDs

GenerateShareToken == Tokens

ToLowerRune(r) ==
    CASE r = "A" -> "a"
      [] r = "B" -> "b"
      [] OTHER   -> r

SafeRunes ==
    {"a", "b", "c", "e", "g", "h", "i", "l", "m", "n", "o", "r", "s", "t", "u", "y",
     "0", "1", "2", "_", "-"}

sanitizeContainerUser(user) ==
    LET safeUser == [i \in 1..Len(user) |->
                        IF ToLowerRune(user[i]) \in SafeRunes
                        THEN ToLowerRune(user[i]) ELSE "_"]
    IN IF safeUser = <<>> THEN <<"u", "s", "e", "r">> ELSE safeUser

containerUserPrefix(user) ==
    <<"c", "y", "h", "_">> \o sanitizeContainerUser(user) \o <<"_">>

buildContainerName(user, sessionID) ==
    <<"c", "y", "h", "_">> \o sanitizeContainerUser(user)
        \o <<"_", "s", "e", "s", "s", "_">> \o sessionID

(***************************************************************************)
(* Session Registry and Event Store: SessionManager over the two tables.   *)
(***************************************************************************)
Idle == [op |-> "idle"]

Callers == {"c1", "c2"}

\* The row CreateSession inserts (is_live, share_token, ended_at, duration
\* take the schema's defaults).
NewSessionRow(user, mode, id) ==
    [user |-> user,
     mode |-> mode,
     container_name |-> IF mode = "docker"
                        THEN buildContainerName(Runes(user), Runes(id)) ELSE <<>>,
     created_at |-> now,
     ended_at |-> NullTime,
     duration |-> 0,
     is_live |-> FALSE,
     share_token |-> Null,
     permission_mode |-> PermissionViewOnly]

NewActiveSession == [StartTime |-> now]

\* SELECT ... FROM term_sessions WHERE id = ?
GetSessionRow(id) == term_sessions[id]

\* The rowids of one session's events.
SessionLogIds(id) == {i \in 1..Len(terminal_logs) : terminal_logs[i].session_id = id}

\* A mutant of OrderByTimestamp: the rows in rowid order, the ORDER BY dropped.
OrderByRowid(id) ==
    LET ids == SessionLogIds(id)
    IN {ord \in [1..Cardinality(ids) -> ids] :
            \A i, j \in 1..Cardinality(ids) : i < j => ord[i] < ord[j]}

\* SELECT ... FROM terminal_logs WHERE session_id = ? ORDER BY timestamp ASC:
\* every ordering of the session's rows by timestamp; SQL leaves the order of
\* rows with equal timestamps open.
OrderByTimestamp(id) ==
    LET ids == SessionLogIds(id)
    IN {ord \in [1..Cardinality(ids) -> ids] :
            /\ \A i, j \in 1..Cardinality(ids) : i # j => ord[i] # ord[j]
            /\ \A i, j \in 1..Cardinality(ids) :
                   i < j => terminal_logs[ord[i]].timestamp <= terminal_logs[ord[j]].timestamp}

\* A mutant of StartTs: offsets measured from the first event.
StartTsFirstEvent(createdAt, firstTs) == firstTs

\* startTs of GetSessionData: the creation time, or the first event's time
\* when that is earlier.
StartTs(createdAt, firstTs) == IF firstTs < createdAt THEN firstTs ELSE createdAt

\* The events GetSessionData returns for the rows in order ord.
RelativeEvents(id, ord) ==
    IF Len(ord) = 0 THEN <<>>
    ELSE LET startTs == StartTs(term_sessions[id].created_at,
                                terminal_logs[ord[1]].timestamp)
         IN [i \in 1..Len(ord) |->
                [Type |-> terminal_logs[ord[i]].event_type,
                 Data |-> terminal_logs[ord[i]].data,
                 Timestamp |-> Max0(terminal_logs[ord[i]].timestamp - startTs)]]

\* A mutant of DeleteRowsAffected: the owner is not compared.
DeleteRowsAffectedAnyUser(id, user) ==
    IF term_sessions[id] # NoRow THEN 1 ELSE 0

\* DELETE FROM term_sessions WHERE id = ? AND user = ?: the rows affected.
DeleteRowsAffected(id, user) ==
    IF term_sessions[id] # NoRow /\ term_sessions[id].user = user THEN 1 ELSE 0

\* A mutant of EndSessionUpdateRow: is_live is left as it is.
EndSessionUpdateRowKeepsLive(id, endedAt, duration) ==
    [term_sessions EXCEPT ![id] =
        IF @ = NoRow THEN @
        ELSE [@ EXCEPT !.ended_at = endedAt, !.duration = duration]]

\* UPDATE term_sessions SET ended_at = ?, duration = ?, is_live = 0 WHERE id = ?
EndSessionUpdateRow(id, endedAt, duration) ==
    [term_sessions EXCEPT ![id] =
        IF @ = NoRow THEN @
        ELSE [@ EXCEPT !.ended_at = endedAt, !.duration = duration, !.is_live = FALSE]]

\* INSERT INTO terminal_logs (session_id, event_type, data, timestamp)
InsertLog(sessionID, eventType, data, timestamp) ==
    Append(terminal_logs,
           [session_id |-> sessionID, event_type |-> eventType,
            data |-> data, timestamp |-> timestamp])

(***************************************************************************)
(* Actions of the Session Registry.                                        *)
(***************************************************************************)
\* The wall clock moves, forward or (clock adjustment) backward.
ClockStep ==
    /\ \E t \in Times : t # now /\ now' = t
    /\ UNCHANGED <<term_sessions, terminal_logs, activeSessions, ret, call>>
    /\ UNCHANGED otherVars

\* SessionManager.CreateSession with the ID GenerateID drew.
smCreateSession(user, mode, id) ==
    /\ IF term_sessions[id] # NoRow
       THEN /\ ret' = [op |-> "CreateSession", id |-> id, user |-> user,
                       err |-> ErrConstraint]
            /\ UNCHANGED <<term_sessions, activeSessions>>
       ELSE /\ term_sessions' = [term_sessions EXCEPT ![id] = NewSessionRow(user, mode, id)]
            /\ activeSessions' = [activeSessions EXCEPT ![id] = NewActiveSession]
            /\ ret' = [op |-> "CreateSession", id |-> id, user |-> user, err |-> Nil]
    /\ UNCHANGED <<terminal_logs, now, call>>

\* CreateSession called on its own.
CreateSession(user, mode, id) ==
    /\ smCreateSession(user, mode, id)
    /\ UNCHANGED otherVars

\* SessionManager.AddEvent: the row is stamped with the wall clock; the
\* active handle's LastActivity, which nothing reads, is left out.
smAddEvent(sessionID, eventType, data) ==
    /\ Len(terminal_logs) < MaxEvents
    /\ terminal_logs' = InsertLog(sessionID, eventType, data, now)
    /\ ret' = [op |-> "AddEvent", id |-> sessionID, err |-> Nil]
    /\ UNCHANGED <<term_sessions, activeSessions, now, call>>

\* AddEvent called on its own.
AddEvent(sessionID, eventType, data) ==
    /\ smAddEvent(sessionID, eventType, data)
    /\ UNCHANGED otherVars

\* SessionManager.GetSessionData.
GetSessionData(id) ==
    /\ IF GetSessionRow(id) = NoRow
       THEN ret' = [op |-> "GetSessionData", id |-> id, err |-> ErrNoRows]
       ELSE \E ord \in OrderByTimestamp(id) :
                ret' = [op |-> "GetSessionData", id |-> id, err |-> Nil,
                        events |-> RelativeEvents(id, ord)]
    /\ UNCHANGED <<term_sessions, terminal_logs, activeSessions, now, call>>
    /\ UNCHANGED otherVars

\* handleSessionByID, method DELETE, with SessionManager.DeleteSession.
handleSessionDelete(id, username) ==
    /\ IF username = ""
       THEN /\ ret' = [op |-> "DeleteSession", id |-> id, user |-> username,
                       err |-> Nil, status |-> 401]
            /\ UNCHANGED <<term_sessions, activeSessions>>
       ELSE IF DeleteRowsAffected(id, username) = 0
       THEN /\ ret' = [op |-> "DeleteSession", id |-> id, user |-> username,
                       err |-> ErrNoRows, status |-> 404]
            /\ UNCHANGED <<term_sessions, activeSessions>>
       ELSE /\ term_sessions' = [term_sessions EXCEPT ![id] = NoRow]
            /\ activeSessions' = [activeSessions EXCEPT ![id] = NoHandle]
            /\ ret' = [op |-> "DeleteSession", id |-> id, user |-> username,
                       err |-> Nil, status |-> 200]
    /\ UNCHANGED <<terminal_logs, now, call>>
    /\ UNCHANGED otherVars

\* handleSessionByID, method GET, with SessionManager.GetSession.
handleSessionGet(id, username) ==
    /\ ret' = IF GetSessionRow(id) = NoRow
              THEN [op |-> "GetSession", id |-> id, user |-> username, status |-> 404]
              ELSE IF GetSessionRow(id).user # username
              THEN [op |-> "GetSession", id |-> id, user |-> username, status |-> 403]
              ELSE [op |-> "GetSession", id |-> id, user |-> username, status |-> 200,
                    session |-> GetSessionRow(id)]
    /\ UNCHANGED <<term_sessions, terminal_logs, activeSessions, now, call>>
    /\ UNCHANGED otherVars

\* SessionManager.EndSession up to sm.mu.Unlock: the handle is taken out of
\* the table, or the call fails.
smEndSessionLock(c, id) ==
    /\ call[c] = Idle
    /\ IF activeSessions[id] = NoHandle
       THEN /\ ret' = [op |-> "EndSession", id |-> id, err |-> ErrNoRows]
            /\ UNCHANGED <<activeSessions, call>>
       ELSE /\ activeSessions' = [activeSessions EXCEPT ![id] = NoHandle]
            /\ call' = [call EXCEPT ![c] = [op |-> "EndSession", id |-> id]]
            /\ UNCHANGED ret
    /\ UNCHANGED <<term_sessions, terminal_logs, now>>

\* The first part of EndSession, called on its own.
EndSessionLock(c, id) ==
    /\ smEndSessionLock(c, id)
    /\ UNCHANGED otherVars

\* SessionManager.EndSession from there: the UPDATE of the record.
smEndSessionUpdate(c) ==
    /\ call[c] # Idle /\ call[c].op = "EndSession"
    /\ \E d \in 0..MaxDuration :
           term_sessions' = EndSessionUpdateRow(call[c].id, now, d)
    /\ ret' = [op |-> "EndSession", id |-> call[c].id, err |-> Nil]
    /\ call' = [call EXCEPT ![c] = Idle]
    /\ UNCHANGED <<terminal_logs, activeSessions, now>>

\* The second part of EndSession, called on its own.
EndSessionUpdate(c) ==
    /\ smEndSessionUpdate(c)
    /\ UNCHANGED otherVars

\* A mutant of ShareTokenTaken: the UNIQUE constraint is not there.
ShareTokenTakenNever(id, token) == FALSE

\* share_token TEXT UNIQUE: another row holds the token.
ShareTokenTaken(id, token) ==
    \E other \in SessionIDs \ {id} :
        /\ term_sessions[other] # NoRow
        /\ term_sessions[other].share_token = token

\* A mutant of StartLiveUpdateRow: the permission mode is not written.
StartLiveUpdateRowKeepsMode(id, mode, token) ==
    [term_sessions EXCEPT ![id] =
        IF @ = NoRow THEN @
        ELSE [@ EXCEPT !.is_live = TRUE, !.share_token = token]]

\* UPDATE term_sessions SET is_live = 1, share_token = ?, permission_mode = ?
\* WHERE id = ?
StartLiveUpdateRow(id, mode, token) ==
    [term_sessions EXCEPT ![id] =
        IF @ = NoRow THEN @
        ELSE [@ EXCEPT !.is_live = TRUE, !.share_token = token,
                       !.permission_mode = mode]]

\* SessionManager.StartLiveSession with the token GenerateShareToken drew:
\* the UPDATE fails if it would give a row a token another row holds; it
\* succeeds, changing nothing, if no row has the ID.
StartLiveSession(id, mode, token) ==
    /\ IF term_sessions[id] # NoRow /\ ShareTokenTaken(id, token)
       THEN /\ ret' = [op |-> "StartLiveSession", id |-> id, mode |-> mode,
                       token |-> "", err |-> ErrConstraint]
            /\ UNCHANGED term_sessions
       ELSE /\ term_sessions' = StartLiveUpdateRow(id, mode, token)
            /\ ret' = [op |-> "StartLiveSession", id |-> id, mode |-> mode,
                       token |-> token, err |-> Nil]
    /\ UNCHANGED <<terminal_logs, activeSessions, now, call>>
    /\ UNCHANGED otherVars

\* SessionManager.StopLiveSession.
StopLiveSession(id) ==
    /\ term_sessions' = [term_sessions EXCEPT ![id] =
                            IF @ = NoRow THEN @ ELSE [@ EXCEPT !.is_live = FALSE]]
    /\ ret' = [op |-> "StopLiveSession", id |-> id, err |-> Nil]
    /\ UNCHANGED <<terminal_logs, activeSessions, now, call>>
    /\ UNCHANGED otherVars

\* SessionManager.UpdatePermissionMode.
UpdatePermissionMode(id, mode) ==
    /\ term_sessions' = [term_sessions EXCEPT ![id] =
                            IF @ = NoRow THEN @
                            ELSE [@ EXCEPT !.permission_mode = mode]]
    /\ ret' = [op |-> "UpdatePermissionMode", id |-> id, err |-> Nil]
    /\ UNCHANGED <<terminal_logs, activeSessions, now, call>>
    /\ UNCHANGED otherVars

InitRegistry ==
    /\ term_sessions = [id \in SessionIDs |-> NoRow]
    /\ terminal_logs = <<>>
    /\ activeSessions = [id \in SessionIDs |-> NoHandle]
    /\ now = 0
    /\ ret = Idle
    /\ call = [c \in Callers |-> Idle]

(***************************************************************************)
(* Claims about GetSessionData and DeleteSession.                          *)
(***************************************************************************)
MinTimestamp(id) ==
    CHOOSE t \in {terminal_logs[i].timestamp : i \in SessionLogIds(id)} :
        \A i \in SessionLogIds(id) : t <= terminal_logs[i].timestamp

GotSessionData == ret.op = "GetSessionData" /\ ret.err = Nil

\* C8: the events GetSessionData returns have relative timestamps that are
\* all >= 0 and non-decreasing along the returned list, whatever the stored
\* absolute timestamps are (earlier than the creation time, ties, rows
\* inserted out of timestamp order).
C8_RelativeTimestampsMonotone ==
    GotSessionData =>
        \A i \in 1..Len(ret.events) :
            /\ ret.events[i].Timestamp >= 0
            /\ i > 1 => ret.events[i - 1].Timestamp <= ret.events[i].Timestamp

\* GetSessionData has returned two events of a session one of whose events is
\* stamped before the session's creation and whose rows were inserted out of
\* timestamp order.
C8_Witness ==
    /\ GotSessionData
    /\ Len(ret.events) = 2
    /\ \E i \in SessionLogIds(ret.id) :
           terminal_logs[i].timestamp < term_sessions[ret.id].created_at
    /\ \E i, j \in SessionLogIds(ret.id) :
           i < j /\ terminal_logs[i].timestamp > terminal_logs[j].timestamp

\* C9 as claimed: whenever GetSessionData returns a non-empty list, the first
\* returned event has relative timestamp 0.
C9_FirstEventAtZero ==
    (GotSessionData /\ ret.events # <<>>) => ret.events[1].Timestamp = 0

\* C9 as amended: offsets are measured from the session's creation time, or
\* from the earliest event when that is stamped before the creation; the first
\* returned event has relative timestamp max(0, earliest event - creation),
\* which is 0 only when that event is stamped no later than the creation.
C9_FirstEventFromCreation ==
    (GotSessionData /\ ret.events # <<>>) =>
        ret.events[1].Timestamp =
            Max0(MinTimestamp(ret.id) - term_sessions[ret.id].created_at)

\* GetSessionData has returned a list whose first event is at a positive
\* offset.
C9_Witness ==
    GotSessionData /\ ret.events # <<>> /\ ret.events[1].Timestamp > 0

\* C10: a DELETE of an existing session by a user who is not its owner is
\* answered not-found and changes nothing: the record, the events and the
\* active handle stay, and the record still belongs to the true owner.
C10_NonOwnerDeleteChangesNothing ==
    [][\A id \in SessionIDs, u \in Users :
          (/\ term_sessions[id] # NoRow
           /\ term_sessions[id].user # u
           /\ handleSessionDelete(id, u))
          => /\ ret'.err = ErrNoRows
             /\ ret'.status = 404
             /\ term_sessions' = term_sessions
             /\ terminal_logs' = terminal_logs
             /\ activeSessions' = activeSessions
             /\ GetSessionRow(id)' # NoRow
             /\ GetSessionRow(id)'.user = term_sessions[id].user]_vars

\* A non-owner's DELETE of a session that has events and an active handle
\* has been answered not-found.
C10_Witness ==
    /\ ret.op = "DeleteSession"
    /\ ret.status = 404
    /\ term_sessions[ret.id] # NoRow
    /\ term_sessions[ret.id].user # ret.user
    /\ activeSessions[ret.id] # NoHandle
    /\ SessionLogIds(ret.id) # {}

(***************************************************************************)
(* The Live Hub: rooms, viewers, the hub goroutine and its three channels. *)
(***************************************************************************)
MaxSend == 1
MaxChan == 1
MaxBroadcast == 1

Conns == {"v1", "v2"}

Workers == {"w1"}

Pumps == {"out", "in"}

Threads == Conns \cup Workers \cup Pumps

NoRoom == [none |-> "room"]

NoViewer == [none |-> "viewer"]

MsgTypeOutput == "output"

MsgTypeInput == "input"

MsgTypeViewerJoin == "viewer_join"

MsgTypeViewerLeave == "viewer_leave"

MsgTypePermissionGrant == "permission_grant"

MsgTypePermissionDeny == "permission_deny"

MsgTypePermissionModeChange == "permission_mode_change"

\* A LiveMessage the hub itself builds: its type and its room.  Data and
\* Timestamp are left out of the model.
LiveMessage(type, sessionID) == [Type |-> type, SessionID |-> sessionID]

\* The output message handleRegister sends a new viewer: Data is the
\* room's OutputBuffer.
ReplayMessage(sessionID, buffer) ==
    [Type |-> MsgTypeOutput, SessionID |-> sessionID, Replay |-> buffer]

\* The viewer handleLiveWebSocket builds; CanWrite starts as Go's zero value.
NewLiveViewer(username, sessionID, isOwner) ==
    [Username |-> username, SessionID |-> sessionID, IsOwner |-> isOwner,
     CanWrite |-> FALSE, send |-> <<>>, closed |-> FALSE, enqueued |-> <<>>]

\* The room handleRegister and UpdatePermissionMode build.
NewLiveRoom(mode) ==
    [Owner |-> Nil, Viewers |-> {}, PermissionMode |-> mode, OutputBuffer |-> <<>>,
     history |-> <<>>]

\* select { case viewer.send <- data: default: } on an open channel.
TrySend(vs, c, msg) ==
    IF Len(vs[c].send) < MaxSend
    THEN [vs EXCEPT ![c].send = Append(@, msg)]
    ELSE vs

\* A mutant of FanOut: nobody is sent anything.
FanOutNone(vs, targets, msg) == vs

\* The same for every viewer of a set.
FanOut(vs, targets, msg) ==
    [c \in Conns |->
        IF c \in targets /\ Len(vs[c].send) < MaxSend
        THEN [vs[c] EXCEPT !.send = Append(@, msg)]
        ELSE vs[c]]

\* A mutant of RegisterCanWrite: instructor mode hands out write permission.
RegisterCanWriteInstructor(isOwner, mode, old) ==
    IF isOwner THEN TRUE
    ELSE CASE mode = PermissionViewOnly -> FALSE
           [] mode = PermissionSharedControl -> TRUE
           [] mode = PermissionInstructor -> TRUE
           [] OTHER -> old

\* The flag handleRegister assigns under room.mu.
RegisterCanWrite(isOwner, mode, old) ==
    IF isOwner THEN TRUE
    ELSE CASE mode = PermissionViewOnly -> FALSE
           [] mode = PermissionSharedControl -> TRUE
           [] mode = PermissionInstructor -> FALSE
           [] OTHER -> old

\* The flags UpdatePermissionMode assigns to the members of a room.
ModeCanWrite(vs, members, mode) ==
    [c \in Conns |->
        IF c \in members /\ ~vs[c].IsOwner
        THEN [vs[c] EXCEPT !.CanWrite =
                 CASE mode = PermissionViewOnly -> FALSE
                   [] mode = PermissionSharedControl -> TRUE
                   [] mode = PermissionInstructor -> FALSE
                   [] OTHER -> @]
        ELSE vs[c]]

\* The goroutines that hold a pointer to the room of sessionID lose the
\* registry's room when it is deleted: what they do next is done to a room
\* that is no longer in LiveHub.rooms.
RoomOps == {"upm_room", "grant_room", "revoke_room", "bo_room"}

Detach(fr, sessionID) ==
    [t \in Threads |->
        IF fr[t].op \in RoomOps /\ fr[t].sid = sessionID
        THEN [fr[t] EXCEPT !.detached = TRUE]
        ELSE fr[t]]

\* h.mu is held by the hub goroutine from the start of handleRegister or
\* handleUnregister to its return.
HubLocked == hubpc # Idle

\* run: case viewer := <-h.register; handleRegister up to room.mu.Unlock.
HubRegister ==
    /\ ~panicked
    /\ hubpc = Idle
    /\ register # <<>>
    /\ register' = Tail(register)
    /\ LET c == Head(register)
           v == viewers[c]
           sid == v.SessionID
       IN IF rooms[sid] = NoRoom /\ GetSessionRow(sid) = NoRow
          THEN UNCHANGED <<rooms, viewers, hubpc>>
          ELSE LET room == IF rooms[sid] = NoRoom
                           THEN NewLiveRoom(GetSessionRow(sid).permission_mode)
                           ELSE rooms[sid]
               IN /\ rooms' = [rooms EXCEPT ![sid] =
                                  [room EXCEPT !.Owner = IF v.IsOwner THEN c ELSE @,
                                               !.Viewers = @ \cup {c}]]
                  /\ viewers' = [viewers EXCEPT ![c].CanWrite =
                                    RegisterCanWrite(v.IsOwner, room.PermissionMode, @)]
                  /\ hubpc' = [op |-> "register_notify", viewer |-> c]
    /\ UNCHANGED <<unregister, broadcast, frame, panicked>>
    /\ UNCHANGED <<regVars, restVars>>

\* handleRegister from there to its return: the two sends to the viewer
\* itself (the permission notice if viewer.CanWrite, the buffered output if
\* any), then h.broadcast <- viewer_join.  With the broadcast channel full
\* the hub goroutine, its only reader, stays in that send holding h.mu.
HubRegisterNotify ==
    /\ ~panicked
    /\ hubpc.op = "register_notify"
    /\ LET c == hubpc.viewer
           v == viewers[c]
           sid == v.SessionID
           grant == LiveMessage(MsgTypePermissionGrant, sid)
           replay == ReplayMessage(sid, rooms[sid].OutputBuffer)
           sendsGrant == v.CanWrite
           sendsReplay == Len(rooms[sid].OutputBuffer) > 0
           vs1 == IF sendsGrant THEN TrySend(viewers, c, grant) ELSE viewers
           vs2 == IF sendsReplay THEN TrySend(vs1, c, replay) ELSE vs1
       IN IF (sendsGrant \/ sendsReplay) /\ v.closed
          THEN /\ panicked' = TRUE
               /\ UNCHANGED <<viewers, hubpc, broadcast>>
          ELSE /\ viewers' = vs2
               /\ UNCHANGED panicked
               /\ IF Len(broadcast) < MaxBroadcast
                  THEN /\ broadcast' = Append(broadcast,
                              LiveMessage(MsgTypeViewerJoin, sid))
                       /\ hubpc' = Idle
                  ELSE /\ hubpc' = [op |-> "blocked"]
                       /\ UNCHANGED broadcast
    /\ UNCHANGED <<rooms, register, unregister, frame>>
    /\ UNCHANGED <<regVars, restVars>>

\* run: case viewer := <-h.unregister; handleUnregister.
HubUnregister ==
    /\ ~panicked
    /\ hubpc = Idle
    /\ unregister # <<>>
    /\ unregister' = Tail(unregister)
    /\ LET c == Head(unregister)
           v == viewers[c]
           sid == v.SessionID
           left == rooms[sid].Viewers \ {c}
           without == [rooms EXCEPT ![sid].Viewers = left,
                                    ![sid].Owner = IF @ = c THEN Nil ELSE @]
       IN IF rooms[sid] = NoRoom
          THEN UNCHANGED <<rooms, viewers, broadcast, hubpc, frame, panicked>>
          ELSE IF v.closed
          THEN /\ rooms' = without
               /\ panicked' = TRUE
               /\ UNCHANGED <<viewers, broadcast, hubpc, frame>>
          ELSE /\ viewers' = [viewers EXCEPT ![c].closed = TRUE]
               /\ UNCHANGED panicked
               /\ IF left = {}
                  THEN /\ rooms' = [rooms EXCEPT ![sid] = NoRoom]
                       /\ frame' = Detach(frame, sid)
                       /\ UNCHANGED <<broadcast, hubpc>>
                  ELSE /\ rooms' = without
                       /\ UNCHANGED frame
                       /\ IF Len(broadcast) < MaxBroadcast
                          THEN /\ broadcast' = Append(broadcast,
                                      LiveMessage(MsgTypeViewerLeave, sid))
                               /\ UNCHANGED hubpc
                          ELSE /\ hubpc' = [op |-> "blocked"]
                               /\ UNCHANGED broadcast
    /\ UNCHANGED <<register>>
    /\ UNCHANGED <<regVars, restVars>>

\* run: case msg := <-h.broadcast; handleBroadcast.
HubBroadcast ==
    /\ ~panicked
    /\ hubpc = Idle
    /\ broadcast # <<>>
    /\ broadcast' = Tail(broadcast)
    /\ LET msg == Head(broadcast)
           room == rooms[msg.SessionID]
       IN IF room = NoRoom
          THEN UNCHANGED <<viewers, panicked>>
          ELSE IF \E c \in room.Viewers : viewers[c].closed
          THEN /\ panicked' = TRUE
               /\ UNCHANGED viewers
          ELSE /\ viewers' = FanOut(viewers, room.Viewers, msg)
               /\ UNCHANGED panicked
    /\ UNCHANGED <<rooms, register, unregister, hubpc, frame>>
    /\ UNCHANGED <<regVars, restVars>>

(***************************************************************************)
(* The hub's methods, as run by the goroutine t (an HTTP handler or a read *)
(* loop).  frame[t].cont is where t goes on after the method returns.      *)
(***************************************************************************)
\* LiveHub.UpdatePermissionMode, h.mu.Lock to h.mu.Unlock: the room is
\* looked up, and created empty if absent.
UpdatePermissionModeLock(t) ==
    /\ ~panicked
    /\ frame[t].op = "upm_lock"
    /\ ~HubLocked
    /\ LET f == frame[t]
       IN /\ rooms' = IF rooms[f.sid] = NoRoom
                      THEN [rooms EXCEPT ![f.sid] = NewLiveRoom(f.mode)]
                      ELSE rooms
          /\ frame' = [frame EXCEPT ![t] =
                          [op |-> "upm_room", sid |-> f.sid, mode |-> f.mode,
                           detached |-> FALSE, cont |-> f.cont]]
    /\ UNCHANGED <<viewers, register, unregister, broadcast, hubpc, panicked>>
    /\ UNCHANGED <<regVars, restVars>>

\* UpdatePermissionMode, room.mu.Lock to room.mu.Unlock.
UpdatePermissionModeRoom(t) ==
    /\ ~panicked
    /\ frame[t].op = "upm_room"
    /\ LET f == frame[t]
       IN /\ IF f.detached
             THEN UNCHANGED <<rooms, viewers>>
             ELSE /\ rooms' = [rooms EXCEPT ![f.sid].PermissionMode = f.mode]
                  /\ viewers' = ModeCanWrite(viewers, rooms[f.sid].Viewers, f.mode)
          /\ frame' = [frame EXCEPT ![t] =
                          [op |-> "upm_bcast", sid |-> f.sid, mode |-> f.mode,
                           cont |-> f.cont]]
    /\ UNCHANGED <<register, unregister, broadcast, hubpc, panicked>>
    /\ UNCHANGED <<regVars, restVars>>

\* UpdatePermissionMode to its end: h.broadcast <- permission_mode_change.
UpdatePermissionModeBroadcast(t) ==
    /\ ~panicked
    /\ frame[t].op = "upm_bcast"
    /\ Len(broadcast) < MaxBroadcast
    /\ LET f == frame[t]
       IN /\ broadcast' = Append(broadcast,
                 LiveMessage(MsgTypePermissionModeChange, f.sid))
          /\ frame' = [frame EXCEPT ![t] = f.cont]
    /\ UNCHANGED <<rooms, viewers, register, unregister, hubpc, panicked>>
    /\ UNCHANGED <<regVars, restVars>>

\* LiveHub.GrantPermission and RevokePermission, h.mu.RLock to h.mu.RUnlock.
PermissionLookup(t) ==
    /\ ~panicked
    /\ frame[t].op \in {"grant_lock", "revoke_lock"}
    /\ ~HubLocked
    /\ LET f == frame[t]
       IN frame' = [frame EXCEPT ![t] =
                       IF rooms[f.sid] = NoRoom THEN f.cont
                       ELSE [op |-> IF f.op = "grant_lock" THEN "grant_room"
                                    ELSE "revoke_room",
                             sid |-> f.sid, username |-> f.username,
                             detached |-> FALSE, cont |-> f.cont]]
    /\ UNCHANGED <<rooms, viewers, register, unregister, broadcast, hubpc, panicked>>
    /\ UNCHANGED <<regVars, restVars>>

\* The members GrantPermission's loop over room.Viewers may stop at.
GrantTargets(room, username) ==
    {c \in room.Viewers : viewers[c].Username = username}

\* GrantPermission under room.mu: the first member of that name the map
\* iteration meets gets the flag and the notice.
GrantPermissionRoom(t) ==
    /\ ~panicked
    /\ frame[t].op = "grant_room"
    /\ LET f == frame[t]
           targets == IF f.detached THEN {} ELSE GrantTargets(rooms[f.sid], f.username)
       IN /\ IF targets = {}
             THEN UNCHANGED <<viewers, panicked>>
             ELSE \E c \in targets :
                      IF viewers[c].closed
                      THEN /\ viewers' = [viewers EXCEPT ![c].CanWrite = TRUE]
                           /\ panicked' = TRUE
                      ELSE /\ viewers' = TrySend(
                                  [viewers EXCEPT ![c].CanWrite = TRUE], c,
                                  LiveMessage(MsgTypePermissionGrant, f.sid))
                           /\ UNCHANGED panicked
          /\ frame' = [frame EXCEPT ![t] = f.cont]
    /\ UNCHANGED <<rooms, register, unregister, broadcast, hubpc>>
    /\ UNCHANGED <<regVars, restVars>>

\* A mutant of RevokeTargets: the loop stops at an owner too.
RevokeTargetsAny(room, username) ==
    {c \in room.Viewers : viewers[c].Username = username}

\* The members RevokePermission's loop may stop at: never an owner.
RevokeTargets(room, username) ==
    {c \in room.Viewers : viewers[c].Username = username /\ ~viewers[c].IsOwner}

\* RevokePermission under room.mu.
RevokePermissionRoom(t) ==
    /\ ~panicked
    /\ frame[t].op = "revoke_room"
    /\ LET f == frame[t]
           targets == IF f.detached THEN {} ELSE RevokeTargets(rooms[f.sid], f.username)
       IN /\ IF targets = {}
             THEN UNCHANGED <<viewers, panicked>>
             ELSE \E c \in targets :
                      IF viewers[c].closed
                      THEN /\ viewers' = [viewers EXCEPT ![c].CanWrite = FALSE]
                           /\ panicked' = TRUE
                      ELSE /\ viewers' = TrySend(
                                  [viewers EXCEPT ![c].CanWrite = FALSE], c,
                                  LiveMessage(MsgTypePermissionDeny, f.sid))
                           /\ UNCHANGED panicked
          /\ frame' = [frame EXCEPT ![t] = f.cont]
    /\ UNCHANGED <<rooms, register, unregister, broadcast, hubpc>>
    /\ UNCHANGED <<regVars, restVars>>

(***************************************************************************)
(* The HTTP handlers that reach the hub.                                   *)
(***************************************************************************)
\* handleSessionShare up to the hub call: the checks, then StartLiveSession
\* (whose UPDATE fails on a share token another session holds) or
\* StopLiveSession.
handleSessionShare(w, id, username, enable, mode, token) ==
    /\ ~panicked
    /\ frame[w] = Idle
    /\ username # ""
    /\ GetSessionRow(id) # NoRow
    /\ GetSessionRow(id).user = username
    /\ IF enable
       THEN IF \E other \in SessionIDs \ {id} :
                    /\ term_sessions[other] # NoRow
                    /\ term_sessions[other].share_token = token
            THEN UNCHANGED <<term_sessions, frame>>
            ELSE /\ term_sessions' = [term_sessions EXCEPT ![id] =
                        [@ EXCEPT !.is_live = TRUE, !.share_token = token,
                                  !.permission_mode = mode]]
                 /\ frame' = [frame EXCEPT ![w] =
                                 [op |-> "upm_lock", sid |-> id, mode |-> mode,
                                  cont |-> Idle]]
       ELSE /\ term_sessions' = [term_sessions EXCEPT ![id] =
                                    [@ EXCEPT !.is_live = FALSE]]
            /\ UNCHANGED frame
    /\ UNCHANGED <<rooms, viewers, register, unregister, broadcast, hubpc, panicked>>
    /\ UNCHANGED <<terminal_logs, activeSessions, now, ret, call, restVars>>

\* handleSessionPermission up to the hub call: the checks, then for set_mode
\* SessionManager.UpdatePermissionMode.
handleSessionPermission(w, id, username, action, mode, target) ==
    /\ ~panicked
    /\ frame[w] = Idle
    /\ username # ""
    /\ GetSessionRow(id) # NoRow
    /\ GetSessionRow(id).user = username
    /\ action \in {"set_mode", "grant", "revoke"}
    /\ IF action = "set_mode"
       THEN /\ mode \in PermissionModes
            /\ term_sessions' = [term_sessions EXCEPT ![id] =
                                    [@ EXCEPT !.permission_mode = mode]]
            /\ frame' = [frame EXCEPT ![w] =
                            [op |-> "upm_lock", sid |-> id, mode |-> mode,
                             cont |-> Idle]]
       ELSE /\ target # ""
            /\ frame' = [frame EXCEPT ![w] =
                            [op |-> IF action = "grant" THEN "grant_lock"
                                    ELSE "revoke_lock",
                             sid |-> id, username |-> target, cont |-> Idle]]
            /\ UNCHANGED term_sessions
    /\ UNCHANGED <<rooms, viewers, register, unregister, broadcast, hubpc, panicked>>
    /\ UNCHANGED <<terminal_logs, activeSessions, now, ret, call, restVars>>

\* SELECT ... FROM term_sessions WHERE share_token = ?
SessionsByShareToken(token) ==
    {id \in SessionIDs : term_sessions[id] # NoRow
                         /\ term_sessions[id].share_token = token}

\* A mutant of JoinStatus: a session that is not live is joined all the same.
JoinStatusLiveUnchecked(token) ==
    IF SessionsByShareToken(token) = {} THEN 404 ELSE 200

\* The checks of handleJoinLiveSession and handleLiveWebSocket:
\* GetSessionByShareToken fails (404), the session is not live (410), or
\* the request goes on (200).
JoinStatus(token) ==
    IF SessionsByShareToken(token) = {} THEN 404
    ELSE IF \E id \in SessionsByShareToken(token) : ~term_sessions[id].is_live THEN 410
    ELSE 200

\* The HTTP answer a handler has written before it returns.
Responded(handler, token, status) ==
    [op |-> "responded", handler |-> handler, token |-> token, status |-> status]

\* handleJoinLiveSession, run by w: the checks, then the answer (the viewer
\* count it reads changes nothing).
handleJoinLiveSession(w, token) ==
    /\ ~panicked
    /\ frame[w] = Idle
    /\ token # ""
    /\ frame' = [frame EXCEPT ![w] = Responded("join", token, JoinStatus(token))]
    /\ UNCHANGED <<rooms, viewers, register, unregister, broadcast, hubpc, panicked>>
    /\ UNCHANGED <<regVars, restVars>>

\* handleLiveWebSocket up to the hub call: the session of the share token
\* must exist (else 404) and be live (else 410); then the handler enters
\* LiveHub.UpdatePermissionMode with the session's mode.
handleLiveWebSocket(c, token, username) ==
    /\ ~panicked
    /\ frame[c] = Idle
    /\ viewers[c] = NoViewer
    /\ token # ""
    /\ IF JoinStatus(token) # 200
       THEN frame' = [frame EXCEPT ![c] = Responded("live_ws", token, JoinStatus(token))]
       ELSE \E id \in SessionsByShareToken(token) :
                frame' = [frame EXCEPT ![c] =
                   [op |-> "upm_lock", sid |-> id,
                    mode |-> term_sessions[id].permission_mode,
                    cont |-> [op |-> "upgrade", sid |-> id, username |-> username,
                              isOwner |-> (username = term_sessions[id].user)],
                    token |-> token]]
    /\ UNCHANGED <<rooms, viewers, register, unregister, broadcast, hubpc, panicked>>
    /\ UNCHANGED <<regVars, restVars>>

\* A handler that has answered returns; the client may send a new request.
HandlerReturn(t) ==
    /\ ~panicked
    /\ frame[t].op = "responded"
    /\ frame' = [frame EXCEPT ![t] = Idle]
    /\ UNCHANGED <<rooms, viewers, register, unregister, broadcast, hubpc, panicked>>
    /\ UNCHANGED <<regVars, restVars>>

\* handleLiveWebSocket from upgrader.Upgrade: on failure the handler
\* returns; else the viewer is built and sent to h.register, and its two
\* pumps start.
Upgrade(c, ok) ==
    /\ ~panicked
    /\ frame[c].op = "upgrade"
    /\ IF ok
       THEN /\ Len(register) < MaxChan
            /\ viewers' = [viewers EXCEPT ![c] =
                   NewLiveViewer(frame[c].username, frame[c].sid, frame[c].isOwner)]
            /\ register' = Append(register, c)
            /\ frame' = [frame EXCEPT ![c] = [op |-> "read"]]
       ELSE /\ frame' = [frame EXCEPT ![c] = [op |-> "returned"]]
            /\ UNCHANGED <<viewers, register>>
    /\ UNCHANGED <<rooms, unregister, broadcast, hubpc, panicked>>
    /\ UNCHANGED <<regVars, restVars>>

(***************************************************************************)
(* The two pumps of a viewer connection.                                   *)
(***************************************************************************)
\* A mutant of MayForward: the read loop forwards whatever the flag says.
MayForwardAlways(canWrite) == TRUE

\* ReadPump, case MsgTypeInput: if v.CanWrite { ... }
MayForward(canWrite) == canWrite

\* ReadPump reads an input envelope and reads v.CanWrite.
ReadInput(c) ==
    /\ ~panicked
    /\ frame[c].op = "read"
    /\ frame' = IF MayForward(viewers[c].CanWrite)
                THEN [frame EXCEPT ![c] =
                         [op |-> "input_room", CanWrite |-> viewers[c].CanWrite]]
                ELSE [frame EXCEPT ![c] = [op |-> "skip", Type |-> MsgTypeInput]]
    /\ UNCHANGED <<rooms, viewers, register, unregister, broadcast, hubpc, panicked>>
    /\ UNCHANGED <<regVars, restVars>>

\* ReadPump, input: room := v.Hub.GetRoom(v.SessionID), then room.Owner is
\* read (outside room.mu).
ReadInputRoom(c) ==
    /\ ~panicked
    /\ frame[c].op = "input_room"
    /\ ~HubLocked
    /\ LET room == rooms[viewers[c].SessionID]
       IN frame' = [frame EXCEPT ![c] =
                       IF room = NoRoom \/ room.Owner = Nil THEN [op |-> "read"]
                       ELSE [op |-> "input_send", owner |-> room.Owner,
                             CanWrite |-> frame[c].CanWrite]]
    /\ UNCHANGED <<rooms, viewers, register, unregister, broadcast, hubpc, panicked>>
    /\ UNCHANGED <<regVars, restVars>>

\* ReadPump, input: select { case room.Owner.send <- data: default: }.
\* room.Owner is read once more here, outside room.mu and while the hub may
\* be writing it: the read gives the owner the test above saw or the one
\* the room has now, and a nil owner is dereferenced.  The forwarded message
\* carries, for the record, the flag the loop had read.
ReadInputSend(c) ==
    /\ ~panicked
    /\ frame[c].op = "input_send"
    /\ LET v == viewers[c]
           room == rooms[v.SessionID]
           fwdMsg == [Type |-> MsgTypeInput, SessionID |-> v.SessionID,
                      Data |-> "a", Sender |-> v.Username,
                      CanWrite |-> frame[c].CanWrite]
       IN \E o \in {frame[c].owner, IF room = NoRoom THEN Nil ELSE room.Owner} :
              IF o = Nil
              THEN /\ panicked' = TRUE
                   /\ UNCHANGED viewers
              ELSE IF viewers[o].closed
              THEN /\ panicked' = TRUE
                   /\ UNCHANGED viewers
              ELSE /\ viewers' = TrySend(viewers, o, fwdMsg)
                   /\ UNCHANGED panicked
    /\ frame' = [frame EXCEPT ![c] = [op |-> "read"]]
    /\ UNCHANGED <<rooms, register, unregister, broadcast, hubpc>>
    /\ UNCHANGED <<regVars, restVars>>

\* A mutant of Honored: the envelope of any connection is followed.
HonoredAlways(isOwner) == TRUE

\* ReadPump, case MsgTypePermissionGrant / MsgTypePermissionDeny:
\* if v.IsOwner { ... }
Honored(isOwner) == isOwner

\* ReadPump reads a permission_grant or permission_deny envelope that names
\* username: only an owner's is followed.
ReadPermission(c, type, username) ==
    /\ ~panicked
    /\ frame[c].op = "read"
    /\ type \in {MsgTypePermissionGrant, MsgTypePermissionDeny}
    /\ frame' = IF Honored(viewers[c].IsOwner)
                THEN [frame EXCEPT ![c] =
                         [op |-> IF type = MsgTypePermissionGrant THEN "grant_lock"
                                 ELSE "revoke_lock",
                          sid |-> viewers[c].SessionID, username |-> username,
                          cont |-> [op |-> "read"]]]
                ELSE [frame EXCEPT ![c] = [op |-> "skip", Type |-> type]]
    /\ UNCHANGED <<rooms, viewers, register, unregister, broadcast, hubpc, panicked>>
    /\ UNCHANGED <<regVars, restVars>>

\* ReadPump has left the switch without doing anything for the envelope:
\* back to ReadMessage.
ReadLoop(c) ==
    /\ ~panicked
    /\ frame[c].op = "skip"
    /\ frame' = [frame EXCEPT ![c] = [op |-> "read"]]
    /\ UNCHANGED <<rooms, viewers, register, unregister, broadcast, hubpc, panicked>>
    /\ UNCHANGED <<regVars, restVars>>

\* ReadPump's ReadMessage fails (the peer is gone, or WritePump has closed
\* the connection): the deferred v.Hub.unregister <- v.
ReadClose(c) ==
    /\ ~panicked
    /\ frame[c].op = "read"
    /\ Len(unregister) < MaxChan
    /\ unregister' = Append(unregister, c)
    /\ frame' = [frame EXCEPT ![c] = [op |-> "done"]]
    /\ UNCHANGED <<rooms, viewers, register, broadcast, hubpc, panicked>>
    /\ UNCHANGED <<regVars, restVars>>

\* WritePump: case message, ok := <-v.send with a message in the channel.
WritePump(c) ==
    /\ ~panicked
    /\ viewers[c] # NoViewer
    /\ viewers[c].send # <<>>
    /\ viewers' = [viewers EXCEPT ![c].send = Tail(@)]
    /\ UNCHANGED <<rooms, register, unregister, broadcast, hubpc, frame, panicked>>
    /\ UNCHANGED <<regVars, restVars>>

\* NewLiveHub.
InitHub ==
    /\ rooms = [id \in SessionIDs |-> NoRoom]
    /\ viewers = [c \in Conns |-> NoViewer]
    /\ register = <<>>
    /\ unregister = <<>>
    /\ broadcast = <<>>
    /\ hubpc = Idle
    /\ frame = [t \in Threads |-> Idle]
    /\ panicked = FALSE

\* C15: after a DeleteSession that succeeded no stored event carries the
\* session's ID, and the session has no record (GetSessionData answers
\* not-found).
C15_DeletePurgesEvents ==
    (ret.op = "DeleteSession" /\ ret.status = 200)
        => /\ SessionLogIds(ret.id) = {}
           /\ GetSessionRow(ret.id) = NoRow

(***************************************************************************)
(* Claims about live sharing in the Session Registry.                      *)
(***************************************************************************)
\* C12: a session record whose end timestamp is set has is_live = false.
C12_EndedNotLive ==
    \A id \in SessionIDs :
        (term_sessions[id] # NoRow /\ term_sessions[id].ended_at # NullTime)
            => ~term_sessions[id].is_live

\* No two session records hold the same share token.
ShareTokensUnique ==
    \A a, b \in SessionIDs :
        (/\ a # b
         /\ term_sessions[a] # NoRow
         /\ term_sessions[b] # NoRow
         /\ term_sessions[a].share_token # Null)
            => term_sessions[a].share_token # term_sessions[b].share_token

\* A step in which CreateSession or StartLiveSession returns.
Returns(op) == ret' # ret /\ ret'.op = op

\* A CreateSession that draws the ID of a record fails, and a failed
\* CreateSession or StartLiveSession leaves the records and the handles
\* as they are.
FailureChangesNothing ==
    /\ (Returns("CreateSession") /\ term_sessions[ret'.id] # NoRow)
           => ret'.err # Nil
    /\ ((Returns("CreateSession") \/ Returns("StartLiveSession")) /\ ret'.err # Nil)
           => /\ term_sessions' = term_sessions
              /\ activeSessions' = activeSessions

\* C13, as stated: session IDs and share tokens are unique whatever the
\* generators draw: a CreateSession or StartLiveSession that draws a value
\* in use fails and leaves every record and the handle table unchanged.
C13_CollisionFails ==
    /\ []ShareTokensUnique
    /\ [][/\ FailureChangesNothing
          /\ (Returns("StartLiveSession") /\ ret'.err = Nil)
                 => \A other \in SessionIDs \ {ret'.id} :
                        term_sessions[other] # NoRow
                            => term_sessions[other].share_token # ret'.token]_vars

\* C13, amended: the same, where the StartLiveSession that fails on a
\* token in use is one for a session that has a record.
C13_CollisionOnRecordFails ==
    /\ []ShareTokensUnique
    /\ [][/\ FailureChangesNothing
          /\ (/\ Returns("StartLiveSession")
              /\ ret'.err = Nil
              /\ term_sessions[ret'.id] # NoRow)
                 => \A other \in SessionIDs \ {ret'.id} :
                        term_sessions[other] # NoRow
                            => term_sessions[other].share_token # ret'.token]_vars

\* StartLiveSession has just failed on a token that the other session holds.
C13_Witness ==
    /\ ret.op = "StartLiveSession"
    /\ ret.err = ErrConstraint
    /\ term_sessions[ret.id] # NoRow
    /\ \E other \in SessionIDs \ {ret.id} :
           /\ term_sessions[other] # NoRow
           /\ term_sessions[other].share_token # Null

(***************************************************************************)
(* Claims about the Live Hub.                                              *)
(***************************************************************************)
\* The members of the room of a session; none when there is no room.
Members(id) == IF rooms[id] = NoRoom THEN {} ELSE rooms[id].Viewers

\* C1: an input envelope handled by a read loop that read can_write = false
\* never puts an input message into an outbound buffer: every input message
\* in any viewer's send channel was forwarded by a loop that had read the
\* flag as true.
C1_NoInputWithoutWrite ==
    \A o \in Conns :
        viewers[o] # NoViewer =>
            \A i \in 1..Len(viewers[o].send) :
                viewers[o].send[i].Type = MsgTypeInput => viewers[o].send[i].CanWrite

\* A read loop has just dropped the input of a member without the flag,
\* while the room's owner was there with room in its send channel.
C1_Witness ==
    \E c \in Conns :
        /\ frame[c] = [op |-> "skip", Type |-> MsgTypeInput]
        /\ ~viewers[c].CanWrite
        /\ c \in Members(viewers[c].SessionID)
        /\ LET o == rooms[viewers[c].SessionID].Owner
           IN /\ o # Nil
              /\ ~viewers[o].closed
              /\ viewers[o].send = <<>>

\* C2: a room is in the registry if and only if it has at least one member.
C2_RoomIffMembers ==
    \A id \in SessionIDs : rooms[id] # NoRoom <=> Members(id) # {}

\* C3: in a room whose mode is view_only no member without the owner flag
\* has can_write = true.
C3_ViewOnlyLocksViewers ==
    \A id \in SessionIDs :
        (rooms[id] # NoRoom /\ rooms[id].PermissionMode = PermissionViewOnly) =>
            \A c \in rooms[id].Viewers : ~viewers[c].IsOwner => ~viewers[c].CanWrite

\* C4, as stated: when handleRegister returns, the connection's can_write
\* flag is true for an owner, and for the others true in a shared_control
\* room and false in a view_only or instructor room.
C4_FlagWhenRegisterReturns ==
    [][(hubpc.op = "register_notify" /\ hubpc'.op # "register_notify") =>
          LET v == viewers'[hubpc.viewer]
              room == rooms'[v.SessionID]
          IN v.CanWrite = (v.IsOwner \/ room.PermissionMode = PermissionSharedControl)]_vars

\* C4, amended: the step of handleRegister that makes a connection a member
\* (its section under room.mu) leaves the can_write flag true for an owner,
\* and for the others true in a shared_control room and false in a
\* view_only or instructor room.
C4_RegisterAssignsFlag ==
    [][(hubpc = Idle /\ hubpc'.op = "register_notify") =>
          LET c == hubpc'.viewer
              v == viewers'[c]
              room == rooms'[v.SessionID]
          IN /\ c \in room.Viewers
             /\ v.CanWrite = (v.IsOwner \/ room.PermissionMode = PermissionSharedControl)
             /\ room.PermissionMode \in PermissionModes]_vars

\* handleRegister has just admitted a spectator to a shared_control room
\* that already holds the owner; nobody is inside GrantPermission.
C4_Witness ==
    /\ hubpc.op = "register_notify"
    /\ LET c == hubpc.viewer
           room == rooms[viewers[c].SessionID]
       IN /\ ~viewers[c].IsOwner
          /\ viewers[c].CanWrite
          /\ room.PermissionMode = PermissionSharedControl
          /\ room.Owner # Nil
          /\ \A t \in Threads : frame[t].op \notin {"grant_lock", "grant_room"}

(***************************************************************************)
(* The PTY bridge: handleTerminal for one terminal connection, its two     *)
(* pumps (goroutines "out" and "in"), the AddEvent goroutines they start   *)
(* and the cleanup closure.                                                *)
(***************************************************************************)
MaxBuffer == 2

HasPrefix(s, prefix) ==
    /\ Len(s) >= Len(prefix)
    /\ SubSeq(s, 1, Len(prefix)) = prefix

\* legacyContainerName: the username goes in as it is.
legacyContainerName(username) ==
    IF username = "guest"
    THEN <<"c", "y", "h", "_", "g", "u", "e", "s", "t",
           "_", "t", "e", "r", "m", "i", "n", "a", "l">>
    ELSE <<"c", "y", "h", "_">> \o Runes(username)
             \o <<"_", "t", "e", "r", "m", "i", "n", "a", "l">>

\* expectedPrefix of the container check.
ExpectedPrefix(username) ==
    IF username = "guest"
    THEN <<"c", "y", "h", "_", "g", "u", "e", "s", "t", "_">>
    ELSE containerUserPrefix(Runes(username))

\* userContainerName before the client's request is looked at: the
\* session's container, else the legacy per-user container.
DefaultContainer(username, session) ==
    IF session # NoRow /\ session.container_name # <<>>
    THEN session.container_name
    ELSE legacyContainerName(username)

\* A mutant of ContainerAllowed: any requested container is taken.
ContainerAllowedAny(username, target, userContainerName) == TRUE

\* strings.HasPrefix(targetContainer, expectedPrefix) ||
\* targetContainer == userContainerName
ContainerAllowed(username, target, userContainerName) ==
    \/ HasPrefix(target, ExpectedPrefix(username))
    \/ target = userContainerName

\* UPDATE term_sessions SET container_name = ? WHERE id = ?
SetSessionContainerName(id, containerName) ==
    [term_sessions EXCEPT ![id] =
        IF @ = NoRow THEN @ ELSE [@ EXCEPT !.container_name = containerName]]

\* pty.StartWithSize(cmd, &pty.Winsize{Rows: 30, Cols: 120})
StartWinsize == [Rows |-> 30, Cols |-> 120]

\* The locals of handleTerminal once the session is resolved; ptyIn is what
\* has been written to the PTY and winsize its geometry.
NewBridge(username, mode, param, activeSessID, session) ==
    [pc |-> "resolved", username |-> username, mode |-> mode, param |-> param,
     activeSessID |-> activeSessID, session |-> session,
     docker |-> FALSE, target |-> <<>>, userContainerName |-> <<>>,
     closeOnce |-> FALSE, doneClosed |-> 0,
     ptmxClosed |-> FALSE, connClosed |-> FALSE,
     ptyIn |-> <<>>, winsize |-> [Rows |-> 0, Cols |-> 0]]

\* A text frame; Kind is the "type" of its JSON body, "" if it has none.
TextFrame(data) == [Type |-> "text", Kind |-> "", Data |-> data]

\* A mutant of SessionIDFrame: the frame carries no ID.
SessionIDFrameEmpty(id) == [Type |-> "text", Kind |-> "session_id", Data |-> ""]

\* conn.WriteJSON({"type": "session_id", "data": activeSessID})
SessionIDFrame(id) == [Type |-> "text", Kind |-> "session_id", Data |-> id]

BinaryFrame(data) == [Type |-> "binary", Data |-> data]

\* A mutant of OnceFires: closeDone closes the channel at every call.
OnceFiresAlways(once) == TRUE

\* closeOnce.Do runs its function only at the first call.
OnceFires(once) == ~once

\* closeDone(): close(done) under closeOnce.
closeDone(b) ==
    [b EXCEPT !.closeOnce = TRUE,
              !.doneClosed = IF OnceFires(b.closeOnce) THEN @ + 1 ELSE @]

\* close(done) on a channel that is closed already panics.
ClosePanics(b) == b.doneClosed > 1

\* A mutant of Resumes: the session's owner is not compared.
ResumesAnyOwner(username, param) ==
    /\ param # ""
    /\ GetSessionRow(param) # NoRow

\* The session of session_id is resumed: GetSession finds it and its User
\* is the connection's user.
Resumes(username, param) ==
    /\ param # ""
    /\ GetSessionRow(param) # NoRow
    /\ GetSessionRow(param).user = username

\* handleTerminal, session resolution: the session of session_id is resumed
\* if it exists and belongs to the user, else a new one is created; the
\* client is told the session ID.
handleTerminalResolve(username, mode, param) ==
    /\ ~panicked
    /\ bridge = Idle
    /\ IF Resumes(username, param)
       THEN /\ bridge' = NewBridge(username, mode, param, param, GetSessionRow(param))
            /\ wsOut' = <<SessionIDFrame(param)>>
            /\ UNCHANGED regVars
       ELSE \E id \in GenerateID :
                /\ smCreateSession(username, mode, id)
                /\ IF term_sessions[id] = NoRow
                   THEN /\ bridge' = NewBridge(username, mode, param, id,
                                               NewSessionRow(username, mode, id))
                        /\ wsOut' = <<SessionIDFrame(id)>>
                   ELSE /\ bridge' = NewBridge(username, mode, param, "", NoRow)
                        /\ wsOut' = <<>>
    /\ UNCHANGED <<pending, cleanup, hubVars>>

\* handleTerminal from there: the container is chosen (docker mode with the
\* image built), the shell is started on a PTY and the two pumps start; if
\* the PTY cannot be started the handler tells the client and returns.
handleTerminalStart(target, built, ok) ==
    /\ ~panicked
    /\ bridge # Idle
    /\ bridge.pc = "resolved"
    /\ LET b == bridge
           docker == b.mode = "docker" /\ built
           default == DefaultContainer(b.username, b.session)
           allowed == target # <<>> /\ ContainerAllowed(b.username, target, default)
           name == IF ~docker THEN <<>> ELSE IF allowed THEN target ELSE default
           stores == /\ docker
                     /\ allowed
                     /\ b.session # NoRow
                     /\ b.session.container_name # name
           started == [b EXCEPT !.docker = docker, !.target = target,
                                !.userContainerName = name]
       IN /\ term_sessions' = IF stores
                              THEN SetSessionContainerName(b.activeSessID, name)
                              ELSE term_sessions
          /\ IF ok
             THEN /\ bridge' = [started EXCEPT !.pc = "running",
                                                !.winsize = StartWinsize]
                  /\ frame' = [frame EXCEPT !["out"] = [op |-> "pty_read"],
                                            !["in"] = [op |-> "ws_read"]]
                  /\ UNCHANGED wsOut
             ELSE /\ bridge' = [started EXCEPT !.pc = "failed", !.connClosed = TRUE]
                  /\ wsOut' = Append(wsOut, TextFrame("Failed to start terminal"))
                  /\ UNCHANGED frame
    /\ UNCHANGED <<terminal_logs, activeSessions, now, ret, call>>
    /\ UNCHANGED <<pending, cleanup>>
    /\ UNCHANGED <<rooms, viewers, register, unregister, broadcast, hubpc, panicked>>

\* An AddEvent goroutine as the pumps start it.
GoEvent(sessionID, eventType, data) ==
    [sid |-> sessionID, type |-> eventType, data |-> data]

\* The events recorded and to be recorded stay within the table's bound.
RoomForEvent == Len(terminal_logs) + Len(pending) < MaxEvents

\* The frames written to the WebSocket stay within the same bound.
RoomForFrame == Len(wsOut) <= MaxEvents

\* A mutant of LastN: the first n elements are kept.
FirstN(s, n) == IF Len(s) > n THEN SubSeq(s, 1, n) ELSE s

\* The last n elements of a sequence: room.OutputBuffer[len-50000:].
LastN(s, n) == IF Len(s) > n THEN SubSeq(s, Len(s) - n + 1, Len(s)) ELSE s

\* The output pump, one turn of its loop: ptmx.Read gives data, which is
\* written to the WebSocket as a binary frame; with a session, an AddEvent
\* goroutine is started and BroadcastOutput is entered.  A failed write
\* (the client is gone) ends the pump, whose deferred closeDone runs.
PtyRead(data, ok) ==
    /\ ~panicked
    /\ frame["out"].op = "pty_read"
    /\ RoomForEvent
    /\ RoomForFrame
    /\ IF ~ok
       THEN /\ bridge' = closeDone(bridge)
            /\ panicked' = ClosePanics(bridge')
            /\ frame' = [frame EXCEPT !["out"] = [op |-> "returned"]]
            /\ UNCHANGED <<wsOut, pending>>
       ELSE /\ wsOut' = Append(wsOut, BinaryFrame(data))
            /\ IF bridge.activeSessID # ""
               THEN /\ pending' = Append(pending,
                                     GoEvent(bridge.activeSessID, "output", data))
                    /\ frame' = [frame EXCEPT !["out"] =
                                    [op |-> "bo_lock", sid |-> bridge.activeSessID,
                                     data |-> data]]
               ELSE UNCHANGED <<pending, frame>>
            /\ UNCHANGED <<bridge, panicked>>
    /\ UNCHANGED <<rooms, viewers, register, unregister, broadcast, hubpc>>
    /\ UNCHANGED <<regVars, cleanup>>

\* The output pump: ptmx.Read fails (the shell has exited); the pump
\* returns and its deferred closeDone runs.
PtyReadError ==
    /\ ~panicked
    /\ frame["out"].op = "pty_read"
    /\ bridge' = closeDone(bridge)
    /\ panicked' = ClosePanics(bridge')
    /\ frame' = [frame EXCEPT !["out"] = [op |-> "returned"]]
    /\ UNCHANGED <<rooms, viewers, register, unregister, broadcast, hubpc>>
    /\ UNCHANGED <<regVars, wsOut, pending, cleanup>>

\* Where a caller of BroadcastOutput goes on when the call returns: the
\* output pump to its next read.
AfterBroadcast(t) == IF t = "out" THEN [op |-> "pty_read"] ELSE Idle

\* LiveHub.BroadcastOutput called by t, h.mu.RLock to h.mu.RUnlock.
BroadcastOutputLookupBy(t) ==
    /\ ~panicked
    /\ frame[t].op = "bo_lock"
    /\ ~HubLocked
    /\ LET f == frame[t]
       IN frame' = [frame EXCEPT ![t] =
                       IF rooms[f.sid] = NoRoom THEN AfterBroadcast(t)
                       ELSE [op |-> "bo_room", sid |-> f.sid, data |-> f.data,
                             detached |-> FALSE]]
    /\ UNCHANGED <<rooms, viewers, register, unregister, broadcast, hubpc, panicked>>
    /\ UNCHANGED <<regVars, restVars>>

\* The payloads put on the viewers' channels between before and after are
\* noted in the viewers' enqueued.
NoteEnqueued(before, after, data) ==
    [c \in Conns |->
        IF before[c] # NoViewer /\ after[c].send # before[c].send
        THEN [after[c] EXCEPT !.enqueued = Append(@, data)]
        ELSE after[c]]

\* BroadcastOutput under room.mu: the data is appended to the room's buffer,
\* which keeps its last MaxBuffer bytes (50000 in the code), and sent to
\* every member whose channel has room.
BroadcastOutputRoomBy(t) ==
    /\ ~panicked
    /\ frame[t].op = "bo_room"
    /\ LET f == frame[t]
           msg == [Type |-> MsgTypeOutput, SessionID |-> f.sid, Data |-> f.data]
       IN IF f.detached
          THEN UNCHANGED <<rooms, viewers, panicked>>
          ELSE /\ rooms' = [rooms EXCEPT
                               ![f.sid].OutputBuffer = LastN(@ \o Runes(f.data), MaxBuffer),
                               ![f.sid].history = @ \o Runes(f.data)]
               /\ IF \E c \in rooms[f.sid].Viewers : viewers[c].closed
                  THEN /\ panicked' = TRUE
                       /\ UNCHANGED viewers
                  ELSE /\ viewers' = NoteEnqueued(viewers,
                                         FanOut(viewers, rooms[f.sid].Viewers, msg),
                                         f.data)
                       /\ UNCHANGED panicked
    /\ frame' = [frame EXCEPT ![t] = AfterBroadcast(t)]
    /\ UNCHANGED <<register, unregister, broadcast, hubpc>>
    /\ UNCHANGED <<regVars, restVars>>

\* BroadcastOutput as the connection's output pump calls it.
BroadcastOutputLookup == BroadcastOutputLookupBy("out")

BroadcastOutputRoom == BroadcastOutputRoomBy("out")

\* The output pump of another terminal connection of the same session (the
\* session resumed in a second tab) has read data and enters
\* BroadcastOutput; what the room has taken stays within the events' bound.
OtherBroadcastOutput(t, sessionID, data) ==
    /\ ~panicked
    /\ frame[t] = Idle
    /\ IF rooms[sessionID] = NoRoom THEN TRUE
       ELSE Len(rooms[sessionID].history) < MaxEvents
    /\ frame' = [frame EXCEPT ![t] = [op |-> "bo_lock", sid |-> sessionID,
                                      data |-> data]]
    /\ UNCHANGED <<rooms, viewers, register, unregister, broadcast, hubpc, panicked>>
    /\ UNCHANGED <<regVars, restVars>>

\* A value of the JSON object under "data": ok says it is a number.
Field(ok, val) == [ok |-> ok, val |-> val]

\* rows, _ := sizeData["rows"].(float64): the number, 0 if the key is
\* missing or holds something else.
AssertFloat(field) == IF field.ok THEN field.val ELSE 0

\* uint16(rows)
Uint16(x) == x % 65536

\* A text frame whose JSON body has "type": "resize"; isMap says its "data"
\* is a JSON object, whose "rows" and "cols" are the fields.
ResizeMessage(data, isMap, rows, cols) ==
    [Type |-> "text", Kind |-> "resize", Data |-> data,
     isMap |-> isMap, rows |-> rows, cols |-> cols]

\* The same bytes sent as a binary frame.
BinaryResizeMessage(data, isMap, rows, cols) ==
    [ResizeMessage(data, isMap, rows, cols) EXCEPT !.Type = "binary"]

\* msgType == websocket.TextMessage, json.Unmarshal succeeds and
\* msg.Type == "resize"
IsResize(f) == f.Type = "text" /\ f.Kind = "resize"

\* A mutant of ValidSize: any dimensions are applied.
ValidSizeAny(rows, cols) == TRUE

\* if rows > 0 && cols > 0
ValidSize(rows, cols) == rows > 0 /\ cols > 0

\* What the PTY has been given stays within the bound of the events.
RoomForInput == Len(bridge.ptyIn) < MaxEvents

\* The input pump: conn.ReadMessage returns a frame.
WsRead(f) ==
    /\ ~panicked
    /\ frame["in"].op = "ws_read"
    /\ RoomForEvent
    /\ RoomForInput
    /\ frame' = [frame EXCEPT !["in"] = [op |-> "ws_frame", msg |-> f]]
    /\ UNCHANGED <<rooms, viewers, register, unregister, broadcast, hubpc, panicked>>
    /\ UNCHANGED <<regVars, restVars>>

\* The input pump, the rest of the turn: a resize message with a valid size
\* sets the PTY's size and, with a session, starts an AddEvent goroutine;
\* any other resize message is skipped.  Everything else is input: with a
\* session an AddEvent goroutine is started, then the data is written to
\* the PTY, and a failed write ends the pump.
WsHandle(ok) ==
    /\ ~panicked
    /\ frame["in"].op = "ws_frame"
    /\ RoomForEvent
    /\ LET f == frame["in"].msg
           sid == bridge.activeSessID
       IN IF IsResize(f)
          THEN /\ IF /\ f.isMap
                     /\ ValidSize(AssertFloat(f.rows), AssertFloat(f.cols))
                  THEN /\ bridge' = [bridge EXCEPT !.winsize =
                                        [Rows |-> Uint16(AssertFloat(f.rows)),
                                         Cols |-> Uint16(AssertFloat(f.cols))]]
                       /\ pending' = IF sid # ""
                                     THEN Append(pending, GoEvent(sid, "resize", f.Data))
                                     ELSE pending
                  ELSE UNCHANGED <<bridge, pending>>
               /\ frame' = [frame EXCEPT !["in"] = [op |-> "ws_read"]]
               /\ UNCHANGED panicked
          ELSE /\ pending' = IF sid # ""
                             THEN Append(pending, GoEvent(sid, "input", f.Data))
                             ELSE pending
               /\ IF ok
                  THEN /\ bridge' = [bridge EXCEPT !.ptyIn = Append(@, f.Data)]
                       /\ frame' = [frame EXCEPT !["in"] = [op |-> "ws_read"]]
                       /\ UNCHANGED panicked
                  ELSE /\ bridge' = closeDone(bridge)
                       /\ panicked' = ClosePanics(bridge')
                       /\ frame' = [frame EXCEPT !["in"] = [op |-> "returned"]]
    /\ UNCHANGED <<rooms, viewers, register, unregister, broadcast, hubpc>>
    /\ UNCHANGED <<regVars, wsOut, cleanup>>

\* The input pump: conn.ReadMessage fails (the client has closed); the
\* pump returns and its deferred closeDone runs.
WsReadError ==
    /\ ~panicked
    /\ frame["in"].op = "ws_read"
    /\ bridge' = closeDone(bridge)
    /\ panicked' = ClosePanics(bridge')
    /\ frame' = [frame EXCEPT !["in"] = [op |-> "returned"]]
    /\ UNCHANGED <<rooms, viewers, register, unregister, broadcast, hubpc>>
    /\ UNCHANGED <<regVars, wsOut, pending, cleanup>>

\* go sessionMgr.AddEvent(...): one of the started goroutines runs.
GoAddEvent(i) ==
    /\ ~panicked
    /\ i \in 1..Len(pending)
    /\ smAddEvent(pending[i].sid, pending[i].type, pending[i].data)
    /\ pending' = SubSeq(pending, 1, i - 1) \o SubSeq(pending, i + 1, Len(pending))
    /\ UNCHANGED <<bridge, wsOut, cleanup, hubVars>>

\* cleanup(), run by k, up to conn.Close: closeDone, ptmx.Close, the shell
\* is hung up, conn.Close.  The handler runs it after wg.Wait, when both
\* pumps have returned.
CleanupStart(k) ==
    /\ ~panicked
    /\ bridge # Idle
    /\ bridge.pc = "running"
    /\ frame["out"].op = "returned"
    /\ frame["in"].op = "returned"
    /\ cleanup[k] = Idle
    /\ bridge' = [closeDone(bridge) EXCEPT !.ptmxClosed = TRUE, !.connClosed = TRUE]
    /\ panicked' = ClosePanics(bridge')
    /\ cleanup' = [cleanup EXCEPT ![k] =
                      IF bridge.activeSessID # ""
                      THEN [op |-> "end_session"] ELSE [op |-> "returned"]]
    /\ UNCHANGED <<rooms, viewers, register, unregister, broadcast, hubpc, frame>>
    /\ UNCHANGED <<regVars, wsOut, pending>>

\* cleanup(): sessionMgr.EndSession(activeSessID), up to the unlock.
CleanupEndSession(k) ==
    /\ ~panicked
    /\ cleanup[k].op = "end_session"
    /\ smEndSessionLock(k, bridge.activeSessID)
    /\ cleanup' = [cleanup EXCEPT ![k] =
                      IF activeSessions[bridge.activeSessID] = NoHandle
                      THEN [op |-> "returned"] ELSE [op |-> "updating"]]
    /\ UNCHANGED <<bridge, wsOut, pending, hubVars>>

\* cleanup(): EndSession's UPDATE, and the closure returns.
CleanupEndSessionUpdate(k) ==
    /\ ~panicked
    /\ cleanup[k].op = "updating"
    /\ smEndSessionUpdate(k)
    /\ cleanup' = [cleanup EXCEPT ![k] = [op |-> "returned"]]
    /\ UNCHANGED <<bridge, wsOut, pending, hubVars>>

\* The caller of the connection's cleanup, and of the EndSession of other
\* requests (handleSessionEnd, the cleanup of another connection).
CleanupCaller == "c1"

OtherCaller == "c2"

InitBridge ==
    /\ bridge = Idle
    /\ wsOut = <<>>
    /\ pending = <<>>
    /\ cleanup = [k \in Callers |-> Idle]

(***************************************************************************)
(* Claims about the PTY bridge.                                            *)
(***************************************************************************)
\* The record of the bridge's session, NoRow when there is none.
BridgeRow ==
    IF bridge = Idle \/ bridge.activeSessID = "" THEN NoRow
    ELSE term_sessions[bridge.activeSessID]

\* The callers whose run of cleanup has returned.
CleanupReturned == {k \in Callers : cleanup[k].op = "returned"}

\* C5: running the bridge's cleanup twice, one run after the other or both
\* at once, does what one run does: nothing panics and the done channel is
\* closed once (and is closed, with the PTY and the connection, when a run
\* has returned); an end timestamp and duration, once recorded, are not
\* written again; a run whose EndSession finds no handle gets not-found
\* and leaves the record as it is.
C5_CleanupTwiceAsOnce ==
    /\ [](/\ ~panicked
          /\ bridge # Idle => bridge.doneClosed <= 1
          /\ CleanupReturned # {} =>
                 /\ bridge.doneClosed = 1
                 /\ bridge.ptmxClosed
                 /\ bridge.connClosed)
    /\ [][/\ \A id \in SessionIDs :
                (/\ term_sessions[id] # NoRow
                 /\ term_sessions[id].ended_at # NullTime)
                    => term_sessions'[id] = term_sessions[id]
          /\ \A k \in Callers :
                (cleanup[k].op = "end_session" /\ cleanup'[k].op = "returned")
                    => /\ ret'.op = "EndSession"
                       /\ ret'.err = ErrNoRows
                       /\ term_sessions' = term_sessions]_vars

\* Both runs of cleanup have returned, the record is ended and the run that
\* came last got not-found from EndSession.
C5_Witness ==
    /\ CleanupReturned = Callers
    /\ bridge.doneClosed = 1
    /\ BridgeRow # NoRow
    /\ BridgeRow.ended_at # NullTime
    /\ ret.op = "EndSession"
    /\ ret.err = ErrNoRows

\* The payloads of the output events of a replay, in its order.
OutputPayloads(events) ==
    LET out == SelectSeq(events, LAMBDA e : e.Type = "output")
    IN [i \in 1..Len(out) |-> out[i].Data]

\* The payloads of the binary frames written to the WebSocket, in order.
BinaryPayloads(frames) ==
    LET bin == SelectSeq(frames, LAMBDA f : f.Type = "binary")
    IN [i \in 1..Len(bin) |-> bin[i].Data]

\* C6: when every AddEvent goroutine of the bridge has run, a replay of the
\* bridge's session (GetSessionData) gives the output payloads in the order
\* in which they were written to the WebSocket as binary frames.
C6_ReplayEqualsStream ==
    (/\ bridge # Idle
     /\ bridge.activeSessID # ""
     /\ pending = <<>>
     /\ ret.op = "GetSessionData"
     /\ ret.err = Nil
     /\ ret.id = bridge.activeSessID
     /\ Len(OutputPayloads(ret.events)) = Len(BinaryPayloads(wsOut)))
        => OutputPayloads(ret.events) = BinaryPayloads(wsOut)

\* handleTerminal has gone through the container selection of docker mode
\* with a container requested by the client.
ContainerRequested ==
    /\ bridge # Idle
    /\ bridge.pc \in {"running", "failed"}
    /\ bridge.docker
    /\ bridge.target # <<>>

\* The shell runs in the default container, which is not the requested
\* one, and the record's container is the one the session came with.
RequestRefused ==
    /\ bridge.userContainerName = DefaultContainer(bridge.username, bridge.session)
    /\ bridge.userContainerName # bridge.target
    /\ bridge.session # NoRow =>
           /\ BridgeRow # NoRow
           /\ BridgeRow.container_name = bridge.session.container_name

\* C7, as stated: in docker mode a requested container that neither starts
\* with the user's prefix nor is the session's own container is not used:
\* the shell runs in the default container and the record keeps its
\* container.
C7_RequestOutsideSessionRefused ==
    (/\ ContainerRequested
     /\ ~HasPrefix(bridge.target, ExpectedPrefix(bridge.username))
     /\ (bridge.session = NoRow \/ bridge.target # bridge.session.container_name))
        => RequestRefused

\* C7, amended: in docker mode a requested container that neither starts
\* with the user's prefix nor is the default container (the session's
\* container, else the legacy per-user container) is not used: the shell
\* runs in the default container and the record keeps its container.
C7_RequestOutsideDefaultRefused ==
    (/\ ContainerRequested
     /\ ~HasPrefix(bridge.target, ExpectedPrefix(bridge.username))
     /\ bridge.target # DefaultContainer(bridge.username, bridge.session))
        => RequestRefused

\* A shell started in docker mode for a session, after the client asked
\* for a container outside its prefix that is not the default one.
C7_Witness ==
    /\ ContainerRequested
    /\ bridge.pc = "running"
    /\ bridge.session # NoRow
    /\ ~HasPrefix(bridge.target, ExpectedPrefix(bridge.username))
    /\ bridge.target # DefaultContainer(bridge.username, bridge.session)
    /\ RequestRefused

(***************************************************************************)
(* Claims about BroadcastOutput.                                           *)
(***************************************************************************)
\* The last min(Len(s), n) elements of s, taken one by one.
Suffix(s, n) ==
    LET k == IF Len(s) < n THEN Len(s) ELSE n
    IN [i \in 1..k |-> s[Len(s) - k + i]]

\* C11: the trailing buffer of a room is never longer than MaxBuffer bytes
\* (50,000 in the code) and is the last min(total, MaxBuffer) bytes of
\* everything BroadcastOutput has appended to the room since its creation,
\* in order.
C11_BufferIsTail ==
    \A id \in SessionIDs :
        rooms[id] # NoRoom =>
            /\ Len(rooms[id].OutputBuffer) <= MaxBuffer
            /\ rooms[id].OutputBuffer = Suffix(rooms[id].history, MaxBuffer)

\* More than MaxBuffer bytes have been broadcast to a room, in more than
\* one call, and the buffer has dropped the oldest.
C11_Witness ==
    \E id \in SessionIDs :
        /\ rooms[id] # NoRoom
        /\ Len(rooms[id].history) > MaxBuffer
        /\ Len(rooms[id].OutputBuffer) = MaxBuffer
        /\ rooms[id].OutputBuffer # SubSeq(rooms[id].history, 1, MaxBuffer)

(***************************************************************************)
(* Claims about the sessions of terminal connections.                      *)
(***************************************************************************)
\* C14: when the cleanup of a terminal connection that resolved a session
\* ID returns, the session's record, new or resumed, has its end timestamp
\* set and is_live = false.
C14_CleanupEndsSession ==
    [][(/\ cleanup[CleanupCaller].op # "returned"
        /\ cleanup'[CleanupCaller].op = "returned"
        /\ bridge.activeSessID # ""
        /\ term_sessions'[bridge.activeSessID] # NoRow)
           => /\ term_sessions'[bridge.activeSessID].ended_at # NullTime
              /\ ~term_sessions'[bridge.activeSessID].is_live]_vars

\* The session named by session_id exists and belongs to the user.
Usable(username, param) ==
    /\ param # ""
    /\ term_sessions[param] # NoRow
    /\ term_sessions[param].user = username

\* The step in which handleTerminal resolves the connection's session.
Resolving == bridge = Idle /\ bridge' # Idle

\* That step creates a record owned by the user, leaves the other records
\* alone and makes the new session the connection's.
CreatesOwnSession ==
    \E id \in SessionIDs :
        /\ term_sessions[id] = NoRow
        /\ term_sessions'[id] # NoRow
        /\ term_sessions'[id].user = bridge'.username
        /\ bridge'.activeSessID = id
        /\ \A other \in SessionIDs \ {id} : term_sessions'[other] = term_sessions[other]

\* A step of the connection: of its handler, its pumps, its AddEvent
\* goroutines or its cleanup.
BridgeStep == restVars' # restVars \/ frame' # frame

\* The stored events of a session, by rowid, in a log table.
LogIdsIn(logs, id) == {i \in 1..Len(logs) : logs[i].session_id = id}

\* A connection that did not attach to the session it named never appends
\* an event to it, ends it or changes its record.
RequestedUntouched ==
    (/\ BridgeStep
     /\ bridge # Idle
     /\ bridge.param # ""
     /\ bridge.activeSessID # bridge.param)
        => /\ term_sessions'[bridge.param] = term_sessions[bridge.param]
           /\ activeSessions'[bridge.param] = activeSessions[bridge.param]
           /\ LogIdsIn(terminal_logs', bridge.param) = LogIdsIn(terminal_logs, bridge.param)

\* C16, as stated: a terminal connection attaches to the session its
\* session_id names only if that session exists and belongs to the
\* connection's user; otherwise it creates a new session of that user, and
\* it never appends events to, ends or changes the session it named.
C16_AttachOrCreate ==
    [][/\ Resolving =>
              IF Usable(bridge'.username, bridge'.param)
              THEN /\ bridge'.activeSessID = bridge'.param
                   /\ term_sessions' = term_sessions
              ELSE CreatesOwnSession
       /\ RequestedUntouched]_vars

\* C16, amended: the same, where the creation of the new session may fail
\* (the generated ID is taken), and the connection then has no session.
C16_AttachOrTryCreate ==
    [][/\ Resolving =>
              IF Usable(bridge'.username, bridge'.param)
              THEN /\ bridge'.activeSessID = bridge'.param
                   /\ term_sessions' = term_sessions
              ELSE \/ CreatesOwnSession
                   \/ /\ term_sessions' = term_sessions
                      /\ bridge'.activeSessID = ""
       /\ RequestedUntouched]_vars

\* A connection that named another user's session has recorded an event
\* into a session of its own and its cleanup has ended that session.
C16_Witness ==
    /\ bridge # Idle
    /\ bridge.param # ""
    /\ term_sessions[bridge.param] # NoRow
    /\ term_sessions[bridge.param].user # bridge.username
    /\ bridge.activeSessID \notin {"", bridge.param}
    /\ LogIdsIn(terminal_logs, bridge.activeSessID) # {}
    /\ cleanup[CleanupCaller].op = "returned"
    /\ BridgeRow # NoRow
    /\ BridgeRow.ended_at # NullTime

\* The positions of the session_id frames among the frames written.
SessionIDFrames ==
    {i \in 1..Len(wsOut) : wsOut[i].Type = "text" /\ wsOut[i].Kind = "session_id"}

\* There is exactly one session_id frame, it carries the connection's
\* session ID and every binary frame comes after it.
OneSessionIDFrameFirst ==
    /\ Cardinality(SessionIDFrames) = 1
    /\ \A i \in SessionIDFrames :
           /\ wsOut[i].Data = bridge.activeSessID
           /\ \A j \in 1..Len(wsOut) : wsOut[j].Type = "binary" => i < j

\* C17, as stated: every terminal connection, once its session is
\* resolved, has been sent exactly one session_id frame, which carries the
\* resolved session ID and precedes every binary frame of PTY output.
C17_OneSessionIDFrame ==
    bridge # Idle => OneSessionIDFrameFirst

\* C17, amended: that holds for every connection that has a session; a
\* connection whose session could not be created is sent no session_id
\* frame.
C17_OneSessionIDFrameIfSession ==
    bridge # Idle =>
        IF bridge.activeSessID # "" THEN OneSessionIDFrameFirst
        ELSE SessionIDFrames = {}

\* A connection that resumed a session has written PTY output after the
\* session_id frame.
C17_Witness ==
    /\ bridge # Idle
    /\ bridge.param # ""
    /\ bridge.activeSessID = bridge.param
    /\ Len(wsOut) >= 2
    /\ wsOut[1].Type = "text"
    /\ wsOut[2].Type = "binary"

(***************************************************************************)
(* Claims about joining a live session.                                    *)
(***************************************************************************)
\* The goroutines that serve join requests.
Joiners == Conns \cup Workers

\* The step in which a join handler run by t decides on its request: it
\* answers, or (WebSocket) goes on to the hub.
JoinDecides(t) ==
    /\ frame[t] = Idle
    /\ frame'[t] # Idle
    /\ \/ frame'[t].op = "responded"
       \/ frame'[t].op = "upm_lock" /\ frame'[t].cont.op = "upgrade"

\* The sessions that hold a share token in the records.
Holders(token) ==
    {id \in SessionIDs : term_sessions[id] # NoRow /\ term_sessions[id].share_token = token}

\* t is answered with the status, and nothing of the hub changes.
Rejected(t, status) ==
    /\ frame'[t].op = "responded"
    /\ frame'[t].status = status
    /\ UNCHANGED <<rooms, viewers, register>>

\* C18: a live join (HTTP or WebSocket) with a token that no session record
\* holds is answered 404, one with the token of a session that is not live
\* is answered 410, and neither registers a connection in the hub: the
\* handler only returns after such an answer.  A token that a later
\* StartLiveSession replaced is held by no record, so it is unknown.
C18_UnknownOrNotLiveRejected ==
    [][\A t \in Joiners :
          /\ JoinDecides(t) =>
                 /\ Holders(frame'[t].token) = {} => Rejected(t, 404)
                 /\ (\E id \in Holders(frame'[t].token) : ~term_sessions[id].is_live)
                        => Rejected(t, 410)
          /\ frame[t].op = "responded" =>
                 /\ frame'[t] \in {frame[t], Idle}
                 /\ frame'[t] = Idle => UNCHANGED <<rooms, viewers, register>>]_vars

\* A WebSocket join has been answered 410 for a session that was stopped,
\* and an HTTP join 404 for a token that no record holds while the session
\* is live under another token.
C18_Witness ==
    \E c \in Conns, w \in Workers, id \in SessionIDs :
        /\ frame[c].op = "responded"
        /\ frame[c].status = 410
        /\ viewers[c] = NoViewer
        /\ frame[w].op = "responded"
        /\ frame[w].status = 404
        /\ term_sessions[id] # NoRow
        /\ term_sessions[id].is_live
        /\ term_sessions[id].share_token \notin {Null, frame[w].token}

(***************************************************************************)
(* Claims about granting and revoking write permission.                    *)
(***************************************************************************)
\* The read loop of c takes up a permission_grant or permission_deny
\* envelope in this step.
ReadsPermission(c) ==
    /\ frame[c].op = "read"
    /\ \/ frame'[c].op \in {"grant_lock", "revoke_lock"}
       \/ frame'[c].op = "skip"
          /\ frame'[c].Type \in {MsgTypePermissionGrant, MsgTypePermissionDeny}

\* C19: a permission_grant or permission_deny envelope from a connection
\* without the owner flag changes no can_write flag and sends nothing: the
\* read loop drops it and goes back to reading; only an owner's envelope
\* takes the read loop into GrantPermission or RevokePermission, and the
\* only connections whose GrantPermission or RevokePermission changes a
\* viewer are owners'.
C19_OnlyOwnerEnvelopesHonored ==
    [][\A c \in Conns :
          /\ ReadsPermission(c) =>
                 IF viewers[c].IsOwner
                 THEN frame'[c].op \in {"grant_lock", "revoke_lock"}
                 ELSE /\ frame'[c].op = "skip"
                      /\ UNCHANGED <<rooms, viewers, broadcast>>
          /\ (/\ frame[c].op = "skip"
              /\ frame[c].Type \in {MsgTypePermissionGrant, MsgTypePermissionDeny}
              /\ frame'[c] # frame[c])
                 => /\ frame'[c].op = "read"
                    /\ UNCHANGED <<rooms, viewers, broadcast>>
          /\ (frame[c].op \in {"grant_room", "revoke_room"} /\ viewers' # viewers)
                 => viewers[c].IsOwner]_vars

\* A member without the owner flag and without write permission has sent a
\* permission_grant envelope, which the read loop has dropped.
C19_Witness ==
    \E c \in Conns :
        /\ frame[c].op = "skip"
        /\ frame[c].Type = MsgTypePermissionGrant
        /\ viewers[c] # NoViewer
        /\ ~viewers[c].IsOwner
        /\ ~viewers[c].CanWrite
        /\ c \in Members(viewers[c].SessionID)

\* C20: in instructor mode a member without the owner flag that has write
\* permission loses it only by a RevokePermission that names it or by a
\* change of the permission mode made by the owner (a request of
\* handleSessionShare or handleSessionPermission); a connection that joins
\* or leaves, the join handler's hub calls included, leaves it as it is.
C20_GrantKeptInInstructorMode ==
    [][\A c \in Conns :
          (/\ viewers[c] # NoViewer
           /\ ~viewers[c].IsOwner
           /\ viewers[c].CanWrite
           /\ c \in Members(viewers[c].SessionID)
           /\ rooms[viewers[c].SessionID].PermissionMode = PermissionInstructor
           /\ ~viewers'[c].CanWrite)
              => \/ \E t \in Threads :
                        /\ frame[t].op = "revoke_room"
                        /\ frame'[t] # frame[t]
                        /\ frame[t].username = viewers[c].Username
                 \/ \E w \in Workers :
                        /\ frame[w].op = "upm_room"
                        /\ frame'[w] # frame[w]]_vars

(***************************************************************************)
(* Claims about the end of a terminal connection.                         *)
(***************************************************************************)
\* The handler's cleanup has run to its end.
CleanupDone == cleanup[CleanupCaller].op = "returned"

\* The handler is past the start of the pumps.
PumpsStarted == bridge # Idle /\ bridge.pc = "running"

\* C21: when the shell has exited (the output pump's ptmx.Read has failed
\* and the pump has returned), the cleanup eventually runs to its end,
\* closing the WebSocket and ending the session, whatever the input pump
\* does: also when the client sends nothing more and does not disconnect.
C21_ShellExitLeadsToCleanup ==
    (PumpsStarted /\ frame["out"].op = "returned")
        ~> (CleanupDone /\ bridge.connClosed)

\* C22: when the client's WebSocket has closed (the input pump's
\* conn.ReadMessage has failed and the pump has returned), the cleanup
\* eventually runs to its end, closing the PTY and ending the session, also
\* when the shell stays idle and writes nothing more.
C22_ClientCloseLeadsToCleanup ==
    (PumpsStarted /\ frame["in"].op = "returned")
        ~> (CleanupDone /\ bridge.ptmxClosed)

(***************************************************************************)
(* Claims about EndSession.                                                *)
(***************************************************************************)
\* Caller c is inside EndSession(id), past the handle table.
Ending(c, id) ==
    /\ call[c] # Idle
    /\ call[c].op = "EndSession"
    /\ call[c].id = id

\* The end of a record as the registry persists it.
EndFields(row) == <<row.ended_at, row.duration>>

\* C23: EndSession(id) gets past the handle table only when id has a handle,
\* which it removes; it then succeeds, and the record (if it is still
\* there) has the end timestamp and the duration of the call and
\* is_live = false.  An EndSession(id) that finds no handle, a second call
\* after a successful one included, returns not-found and changes neither
\* records nor handles.  The end timestamp and the duration of a record are
\* written only by a call that took a handle, so once for each handle.
C23_EndSessionOncePerHandle ==
    [][/\ \A c \in Callers, id \in SessionIDs :
             /\ (~Ending(c, id) /\ Ending(c, id)')
                    => /\ activeSessions[id] # NoHandle
                       /\ activeSessions'[id] = NoHandle
             /\ (Ending(c, id) /\ ~Ending(c, id)')
                    => /\ ret' = [op |-> "EndSession", id |-> id, err |-> Nil]
                       /\ term_sessions'[id] # NoRow =>
                              /\ term_sessions'[id].ended_at = now
                              /\ term_sessions'[id].duration \in 0..MaxDuration
                              /\ ~term_sessions'[id].is_live
       /\ (Returns("EndSession") /\ ret'.err = ErrNoRows)
              => /\ activeSessions[ret'.id] = NoHandle
                 /\ UNCHANGED <<term_sessions, terminal_logs, activeSessions>>
       /\ (Returns("EndSession") /\ ret'.err = Nil)
              => \E c \in Callers : Ending(c, ret'.id)
       /\ \A id \in SessionIDs :
             (/\ term_sessions[id] # NoRow
              /\ term_sessions'[id] # NoRow
              /\ EndFields(term_sessions'[id]) # EndFields(term_sessions[id])
              /\ term_sessions'[id].created_at = term_sessions[id].created_at
              /\ term_sessions'[id].user = term_sessions[id].user)
                 => \E c \in Callers : Ending(c, id) /\ ~Ending(c, id)']_vars

\* A session that was shared live and has been ended: its record has the
\* end timestamp and is not live, and a further EndSession got not-found.
C23_Witness ==
    /\ ret.op = "EndSession"
    /\ ret.err = ErrNoRows
    /\ term_sessions[ret.id] # NoRow
    /\ term_sessions[ret.id].ended_at # NullTime
    /\ term_sessions[ret.id].share_token # Null
    /\ ~term_sessions[ret.id].is_live
    /\ activeSessions[ret.id] = NoHandle

(***************************************************************************)
(* Claims about the share token of StartLiveSession.                       *)
(***************************************************************************)
\* This step is a StartLiveSession(id, mode) on an existing record that
\* returns token.
StartedLive(id, mode, token) ==
    /\ term_sessions[id] # NoRow
    /\ ret' = [op |-> "StartLiveSession", id |-> id, mode |-> mode,
               token |-> token, err |-> Nil]
    /\ ret' # ret \/ term_sessions' # term_sessions

\* The sessions that hold a share token after the step.
HoldersAfter(token) ==
    {id \in SessionIDs :
        term_sessions'[id] # NoRow /\ term_sessions'[id].share_token = token}

\* GetSessionByShareToken(token) after the step gives the record of id,
\* live and in the mode of the call.
ResolvesTo(id, mode, token) ==
    /\ HoldersAfter(token) = {id}
    /\ term_sessions'[id].is_live
    /\ term_sessions'[id].permission_mode = mode

Handles(f) ==
    /\ frame["in"].op = "ws_frame"
    /\ frame["in"].msg = f
    /\ frame'["in"] # frame["in"]

\* The frame the pump has read and not yet dealt with, if any.
FramesRead == IF frame["in"].op = "ws_frame" THEN {frame["in"].msg} ELSE {}

\* The frame is a resize message whose rows and cols are numbers above 0.
PositiveSize(f) ==
    /\ f.isMap
    /\ f.rows.ok /\ f.rows.val > 0
    /\ f.cols.ok /\ f.cols.val > 0

\* The step starts the recording of one event, of this type and payload.
LogsOne(eventType, data) ==
    pending' = Append(pending, GoEvent(bridge.activeSessID, eventType, data))

\* The step starts the recording of an input event.
LogsInput ==
    /\ Len(pending') > Len(pending)
    /\ pending'[Len(pending')].type = "input"

\* The step writes nothing to the PTY.
WritesNothing == bridge'.ptyIn = bridge.ptyIn

\* What the handling of each frame does; logs says whether events are
\* logged and written whether the write to the PTY succeeds.
EveryFrame(logs, written) ==
    \A f \in FramesRead :
        Handles(f) =>
            IF f.Type = "text" /\ f.Kind = "resize"
            THEN /\ WritesNothing
                 /\ ~LogsInput
                 /\ frame'["in"].op = "ws_read"
                 /\ IF PositiveSize(f)
                    THEN /\ bridge'.winsize = [Rows |-> f.rows.val, Cols |-> f.cols.val]
                         /\ logs => LogsOne("resize", f.Data)
                         /\ ~logs => pending' = pending
                    ELSE UNCHANGED <<bridge, pending>>
            ELSE /\ bridge'.winsize = bridge.winsize
                 /\ logs => LogsOne("input", f.Data)
                 /\ ~logs => pending' = pending
                 /\ written => bridge'.ptyIn = Append(bridge.ptyIn, f.Data)
                 /\ ~written => (WritesNothing /\ frame'["in"].op = "returned")

\* C25: a text frame that is a resize message is never written to the PTY
\* and never logged as input; with rows and cols above 0 it sets the PTY's
\* size and logs one resize event, otherwise it changes nothing, and the
\* pump goes on.  Every other frame, binary or text, is written to the PTY
\* as it is and logged as one input event.
C25_FramesClassified == [][EveryFrame(TRUE, TRUE)]_vars

\* C25 as the code has it: events are logged when the connection has a
\* session, and an input frame is written to the PTY unless the write
\* fails, which ends the pump after the event has been logged.
C25_FramesClassifiedWithSession ==
    [][EveryFrame(bridge.activeSessID # "", frame'["in"].op # "returned")]_vars

\* With a session, the pump has set the PTY's size from a resize message
\* and has written an input frame to the PTY; one resize event and one
\* input event are recorded or about to be.
C25_Witness ==
    /\ PumpsStarted
    /\ bridge.activeSessID # ""
    /\ bridge.winsize = [Rows |-> 1, Cols |-> 2]
    /\ bridge.ptyIn = <<"a">>
    /\ frame["in"].op = "ws_read"
    /\ LET types == {pending[i].type : i \in 1..Len(pending)}
                        \cup {terminal_logs[i].event_type : i \in 1..Len(terminal_logs)}
       IN types = {"resize", "input"}

(***************************************************************************)
(* Claims about the delivery of BroadcastOutput.                          *)
(***************************************************************************)
\* The output pump is in BroadcastOutput, at the room, and leaves it in
\* this step.
BroadcastsOutput ==
    /\ frame["out"].op = "bo_room"
    /\ ~frame["out"].detached
    /\ frame'["out"].op # "bo_room"

\* The message BroadcastOutput is sending.
OutputMessage ==
    [Type |-> MsgTypeOutput, SessionID |-> frame["out"].sid,
     Data |-> frame["out"].data]

\* C26: a call of BroadcastOutput that has found the room goes through
\* without waiting for a member: every member whose channel has room gets
\* the output message once, every member whose channel is full gets
\* nothing, and the room's buffer takes the data either way.
C26_BroadcastNeverBlocks ==
    /\ []((frame["out"].op = "bo_room" /\ ~panicked) => ENABLED BroadcastOutputRoom)
    /\ [][BroadcastsOutput =>
             LET sid == frame["out"].sid
             IN /\ ~panicked'
                /\ rooms'[sid].history = rooms[sid].history \o Runes(frame["out"].data)
                /\ rooms'[sid].OutputBuffer =
                       Suffix(rooms[sid].OutputBuffer \o Runes(frame["out"].data),
                              MaxBuffer)
                /\ \A c \in rooms[sid].Viewers :
                       viewers'[c].send =
                           IF Len(viewers[c].send) < MaxSend
                           THEN Append(viewers[c].send, OutputMessage)
                           ELSE viewers[c].send]_vars

(***************************************************************************)
(* Claims about the order of BroadcastOutput's messages.                   *)
(***************************************************************************)
\* The runes of a sequence of payloads, one after the other.
RECURSIVE Flat(_)
Flat(payloads) ==
    IF payloads = <<>> THEN <<>>
    ELSE Runes(Head(payloads)) \o Flat(Tail(payloads))

\* s can be got from t by leaving elements out.
RECURSIVE IsSubseq(_, _)
IsSubseq(s, t) ==
    IF s = <<>> THEN TRUE
    ELSE IF t = <<>> THEN FALSE
    ELSE IF Head(s) = Head(t) THEN IsSubseq(Tail(s), Tail(t))
    ELSE IsSubseq(s, Tail(t))

\* Thread t leaves the room section of BroadcastOutput in this step.
BroadcastsOutputBy(t) ==
    /\ frame[t].op = "bo_room"
    /\ ~frame[t].detached
    /\ frame'[t].op # "bo_room"

\* C27: for every room and member, the output messages put on the member's
\* channel are in the order in which their payloads were appended to the
\* room's buffer, whichever callers of BroadcastOutput run at the same time:
\* what a member was sent is, in order, part of what the room took, and a
\* call appends its data to the end of the room's buffer and its message to
\* the end of the channels in one step.
C27_OutputOrderIsBufferOrder ==
    /\ [](\A sid \in SessionIDs :
              rooms[sid] # NoRoom =>
                  \A c \in rooms[sid].Viewers :
                      IsSubseq(Flat(viewers[c].enqueued), rooms[sid].history))
    /\ [][\A t \in Threads :
              (BroadcastsOutputBy(t) /\ ~panicked') =>
                  LET f == frame[t]
                      msg == [Type |-> MsgTypeOutput, SessionID |-> f.sid,
                              Data |-> f.data]
                  IN /\ rooms'[f.sid].history = rooms[f.sid].history \o Runes(f.data)
                     /\ rooms'[f.sid].OutputBuffer =
                            Suffix(rooms[f.sid].OutputBuffer \o Runes(f.data), MaxBuffer)
                     /\ \A c \in rooms[f.sid].Viewers :
                            \/ /\ Len(viewers[c].send) >= MaxSend
                               /\ viewers'[c] = viewers[c]
                            \/ /\ Len(viewers[c].send) < MaxSend
                               /\ viewers'[c].send = Append(viewers[c].send, msg)
                               /\ viewers'[c].enqueued =
                                      Append(viewers[c].enqueued, f.data)]_vars

\* Two callers are in BroadcastOutput's room section for the same room at
\* once, and a member has already been sent the output of both.
C27_Witness ==
    /\ frame["out"].op = "bo_room"
    /\ frame["w1"].op = "bo_room"
    /\ frame["out"].sid = frame["w1"].sid
    /\ \E c \in Conns :
           /\ viewers[c] # NoViewer
           /\ c \in Members(viewers[c].SessionID)
           /\ Len(viewers[c].enqueued) >= 2
           /\ {viewers[c].enqueued[i] : i \in 1..2} = {"a", "b"}

(***************************************************************************)
(* Claims about the replay a joining viewer gets.                          *)
(***************************************************************************)
\* handleRegister puts the replay of the room's buffer on c's channel in
\* this step.
SendsReplay(c) ==
    /\ hubpc.op = "register_notify"
    /\ hubpc.viewer = c
    /\ hubpc' # hubpc
    /\ Len(viewers'[c].send) > Len(viewers[c].send)
    /\ viewers'[c].send[Len(viewers'[c].send)] =
           ReplayMessage(viewers[c].SessionID, rooms[viewers[c].SessionID].OutputBuffer)

\* C28: a connection that joins a room with a non-empty buffer gets one
\* replay message with the buffer's content and after it only chunks that
\* were appended after that snapshot, however Register and BroadcastOutput
\* interleave: when the replay is put on its channel the connection has
\* been sent no output yet, so no chunk reaches it ahead of a replay that
\* holds it, or twice.
C28_ReplayBeforeLiveOutput ==
    [][\A c \in Conns :
          SendsReplay(c) => viewers[c].enqueued = <<>>]_vars

(***************************************************************************)
(* Claims about the forwarding of viewers' input.                          *)
(***************************************************************************)
\* The owner reference of a session's room, Nil when there is no room.
OwnerOf(sid) == IF rooms[sid] = NoRoom THEN Nil ELSE rooms[sid].Owner

\* The read loop of c, which has write permission, leaves in this step the
\* forwarding of an input envelope.
ForwardsInput(c) ==
    /\ frame[c].op \in {"input_room", "input_send"}
    /\ frame'[c].op = "read"

\* C29: an input envelope from a member with write permission is put only
\* on the channel of the connection that is the owner reference of the room
\* at that time, on no other member's and not into the PTY; with no owner
\* reference it is dropped and nothing changes.
C29_InputOnlyToOwner ==
    [][\A c \in Conns :
          ForwardsInput(c) =>
              LET own == OwnerOf(viewers[c].SessionID)
              IN /\ ~panicked'
                 /\ UNCHANGED <<rooms, regVars, restVars>>
                 /\ \A d \in Conns \ {own} : viewers'[d] = viewers[d]
                 /\ own = Nil => viewers' = viewers]_vars

(***************************************************************************)
(* Claims about the owner reference of a room.                             *)
(***************************************************************************)
\* The members of a session's room that have the owner flag.
OwnerMembers(sid) == {c \in rooms[sid].Viewers : viewers[c].IsOwner}

\* C30: in every state of the hub, the owner reference of a room is empty
\* or is a member of the room that has the owner flag (so never a
\* connection without it), and it is not empty while a connection with the
\* owner flag is a member of the room.
C30_OwnerReferenceTracksOwners ==
    \A sid \in SessionIDs :
        rooms[sid] # NoRoom =>
            /\ rooms[sid].Owner # Nil => rooms[sid].Owner \in OwnerMembers(sid)
            /\ OwnerMembers(sid) # {} => rooms[sid].Owner # Nil

(***************************************************************************)
(* Claims about GrantPermission and RevokePermission.                      *)
(***************************************************************************)
\* Thread t leaves in this step the part of GrantPermission (op
\* "grant_room") or of RevokePermission (op "revoke_room") that runs under
\* room.mu, on a room the hub still holds.
LeavesRoomOp(t, op) ==
    /\ frame[t].op = op
    /\ ~frame[t].detached
    /\ frame'[t].op # op

\* The members of the room of sid that are connections of username
\* without the owner flag.
NamedMembers(sid, username) ==
    {c \in rooms[sid].Viewers :
        viewers[c].Username = username /\ ~viewers[c].IsOwner}

\* The call of thread t gives every connection of the named member the
\* write flag canWrite and leaves the write flag of every other connection
\* as it was.
FlipsAllNamed(t, canWrite) ==
    LET named == NamedMembers(frame[t].sid, frame[t].username)
    IN /\ \A c \in named : viewers'[c].CanWrite = canWrite
       /\ \A c \in Conns \ named :
              IF viewers[c] = NoViewer
              THEN viewers'[c] = NoViewer
              ELSE viewers'[c].CanWrite = viewers[c].CanWrite

\* C31: when RevokePermission(session, u) returns every member connection
\* of username u without the owner flag has can_write false, and when
\* GrantPermission(session, u) returns every one has can_write true, also
\* when u has several connections in the room; connections with the owner
\* flag and members of other names are not modified, and without the room
\* nothing changes.
C31_PermissionReachesEveryConnection ==
    [][\A t \in Threads :
          /\ LeavesRoomOp(t, "grant_room") => FlipsAllNamed(t, TRUE)
          /\ LeavesRoomOp(t, "revoke_room") => FlipsAllNamed(t, FALSE)
          /\ (/\ frame[t].op \in {"grant_lock", "revoke_lock"}
              /\ frame'[t] # frame[t]
              /\ rooms[frame[t].sid] = NoRoom)
             => /\ frame'[t] = frame[t].cont
                /\ UNCHANGED <<rooms, viewers>>]_vars

(***************************************************************************)
(* Claims about the registry's handles and the bridge.                     *)
(***************************************************************************)
\* A PTY bridge is attached to session id: the terminal handler has
\* resolved the session, the PTY has not failed to start and the handler's
\* cleanup has not returned.
Attached(id) ==
    /\ bridge # Idle
    /\ bridge.pc \in {"resolved", "running"}
    /\ bridge.activeSessID = id
    /\ cleanup[CleanupCaller].op # "returned"

\* C32: in every state the registry holds a handle for a session ID exactly
\* when a PTY bridge is attached to that session: a bridge that resumed a
\* session has one while it runs, and none is left for a session created
\* by the API without a bridge, for a connection whose PTY could not be
\* started or after the bridge has terminated.
C32_HandleIffBridgeAttached ==
    \A id \in SessionIDs : activeSessions[id] # NoHandle <=> Attached(id)

(***************************************************************************)
(* Claims about the permission mode of the registry and of the hub.        *)
(***************************************************************************)
\* No permission-mode change and no live join is in flight: no goroutine is
\* inside LiveHub.UpdatePermissionMode or between it and the registration
\* of its viewer, and the hub has no registration left to handle.
NoModeChangeInFlight ==
    /\ \A t \in Threads :
           frame[t].op \notin {"upm_lock", "upm_room", "upm_bcast", "upgrade"}
    /\ register = <<>>
    /\ hubpc = Idle

\* C33: whenever no permission-mode change and no live join is in flight,
\* the permission mode of an existing room is the one recorded on its
\* session, for every interleaving of set_mode requests, share requests
\* and live joins; a room made again by a join takes the recorded mode.
C33_RoomModeIsRecordedMode ==
    NoModeChangeInFlight =>
        \A sid \in SessionIDs :
            (rooms[sid] # NoRoom /\ term_sessions[sid] # NoRow)
            => rooms[sid].PermissionMode = term_sessions[sid].permission_mode

(***************************************************************************)
(* Claims about the owner's write flag.                                    *)
(***************************************************************************)
\* The members of the rooms.
RoomMembers ==
    UNION {rooms[sid].Viewers : sid \in {s \in SessionIDs : rooms[s] # NoRoom}}

\* C34: in every state of the hub every room member that has the owner flag
\* has can_write true: no GrantPermission, no RevokePermission (not even
\* one that names the owner) and no UpdatePermissionMode to any mode
\* clears it.
C34_OwnerKeepsWrite ==
    \A c \in RoomMembers : viewers[c].IsOwner => viewers[c].CanWrite

\* An owner connection is in a room whose mode gives viewers no write
\* permission, next to a viewer's connection that has been sent a
\* revocation, while a RevokePermission that names the owner is under way.
C34_Witness ==
    \E c, d \in RoomMembers :
        /\ viewers[c].IsOwner /\ viewers[c].CanWrite
        /\ ~viewers[d].IsOwner /\ ~viewers[d].CanWrite
        /\ \E i \in 1..Len(viewers[d].send) :
               viewers[d].send[i].Type = MsgTypePermissionDeny
        /\ \E s \in SessionIDs :
               /\ rooms[s] # NoRoom
               /\ {c, d} \subseteq rooms[s].Viewers
               /\ rooms[s].PermissionMode # PermissionSharedControl
        /\ \E t \in Threads :
               /\ frame[t].op = "revoke_room"
               /\ frame[t].username = viewers[c].Username

(***************************************************************************)
(* Claims about the hub's loop.                                            *)
(***************************************************************************)
\* C35: the hub's loop never blocks for ever: after taking a register, an
\* unregister or a broadcast item it comes back to take the next one (or
\* the process has panicked), also when the broadcast queue is full at the
\* moment handleRegister or handleUnregister, run by the loop itself, send
\* their viewer_join or viewer_leave to it.
C35_HubLoopReturns == (hubpc # Idle) ~> (hubpc = Idle \/ panicked)

(***************************************************************************)
(* Claims about closed send channels.                                      *)
(***************************************************************************)
\* A connection whose send channel handleUnregister has closed.
Closed(c) == viewers[c] # NoViewer /\ viewers[c].closed

\* C36: no message is put on a connection's send channel after Unregister
\* has closed it and no send channel is closed twice (either would panic),
\* in particular when a viewer's read loop forwards to the room owner while
\* the hub unregisters the owner.
C36_NoSendOnClosedBuffer ==
    [][(\E c \in Conns : Closed(c)) => (panicked' => panicked)]_vars

(***************************************************************************)
(* Claims about the order of Register and Unregister.                      *)
(***************************************************************************)
\* The hub takes in this step the Unregister of connection c.
TakesUnregister(c) ==
    /\ unregister # <<>>
    /\ Head(unregister) = c
    /\ unregister' = Tail(unregister)

\* C37: the hub handles a connection's Register before its Unregister,
\* also when the connection drops at once and both are pending in the
\* register and unregister queues: when an Unregister is taken the
\* connection's Register is not waiting any more, so that the connection is
\* in no room afterwards.
C37_RegisterBeforeUnregister ==
    [][\A c \in Conns :
          TakesUnregister(c) =>
              \A i \in 1..Len(register) : register[i] # c]_vars

(***************************************************************************)
(* Claims about output after the sharing has stopped.                      *)
(***************************************************************************)
\* Session id has been shared and is not live any more: StopLiveSession or
\* EndSession has cleared is_live.
Stopped(id) ==
    IF id \notin SessionIDs THEN FALSE
    ELSE IF term_sessions[id] = NoRow THEN FALSE
    ELSE ~term_sessions[id].is_live /\ term_sessions[id].share_token # Null

\* Connection c is a member of the room of session id.
InRoom(c, id) ==
    IF rooms[id] = NoRoom THEN FALSE ELSE c \in rooms[id].Viewers

\* C38: after the owner has stopped the live sharing or the session has
\* been ended, no connection without the owner flag that was in the room
\* is sent an output chunk produced afterwards.  (In SpecStop the sharing
\* stops with the viewer in the room and the shell writes only after that.)
C38_NoOutputAfterStop ==
    \A c \in Conns :
        (viewers[c] # NoViewer /\ ~viewers[c].IsOwner)
        => viewers[c].enqueued = <<>>

(***************************************************************************)
(* Claims about the container a connection is attached to.                 *)
(***************************************************************************)
\* Two users whose names sanitizeContainerUser maps to one string.
AttachUsers == {"bob", "Bob"}

\* The container names CreateSession generated for the docker sessions of
\* user v.
ContainersOf(v) ==
    {buildContainerName(Runes(v), Runes(id)) :
        id \in {i \in SessionIDs : /\ term_sessions[i] # NoRow
                                   /\ term_sessions[i].user = v
                                   /\ term_sessions[i].mode = "docker"}}

\* C39: a terminal connection of user u is never attached to a container
\* that was generated for a session of another user v, whatever container
\* the client asks for, also when the two names sanitize to the same
\* string or one is a prefix of the other up to an underscore.
C39_NoForeignContainer ==
    (bridge # Idle /\ bridge.pc = "running" /\ bridge.docker)
    => \A v \in AttachUsers \ {bridge.username} :
           bridge.userContainerName \notin ContainersOf(v)

(***************************************************************************)
(* Claims about events and the end of their session.                       *)
(***************************************************************************)
\* The session of id has a record with no end timestamp.
Open(id) ==
    IF term_sessions[id] = NoRow THEN FALSE
    ELSE term_sessions[id].ended_at = NullTime

\* C40: no event is appended to the log of a session after the session's
\* end timestamp has been set or after the session has been deleted, for
\* any interleaving of bridge connections and API requests: a row is
\* inserted only for a session that has a record without an end timestamp.
C40_NoEventAfterEnd ==
    [][Len(terminal_logs') > Len(terminal_logs)
       => Open(terminal_logs'[Len(terminal_logs')].session_id)]_vars

(***************************************************************************)
(* The initial state and the specifications.                               *)
(***************************************************************************)
Init == InitRegistry /\ InitHub /\ InitBridge

(***************************************************************************)
(* SpecEvents: sessions, their events and the replay read.                 *)
(***************************************************************************)
NextEvents ==
    \/ ClockStep
    \/ \E id \in GenerateID : CreateSession("alice", "local", id)
    \/ \E id \in SessionIDs : AddEvent(id, "output", "a")
    \/ \E id \in SessionIDs : GetSessionData(id)

SpecEvents == Init /\ [][NextEvents]_vars

(***************************************************************************)
(* SpecRegistry: the life of session records.                              *)
(***************************************************************************)
NextRegistry ==
    \/ \E u \in Users, id \in GenerateID : CreateSession(u, "local", id)
    \/ \E id \in SessionIDs : AddEvent(id, "output", "a")
    \/ \E id \in SessionIDs, u \in Users \cup {""} : handleSessionDelete(id, u)
    \/ \E id \in SessionIDs, u \in Users \cup {""} : handleSessionGet(id, u)
    \/ \E c \in Callers, id \in SessionIDs : EndSessionLock(c, id)
    \/ \E c \in Callers : EndSessionUpdate(c)

SpecRegistry == Init /\ [][NextRegistry]_vars

(***************************************************************************)
(* SpecHub: one shared session, its room and its viewers.                  *)
(***************************************************************************)
HubSession == "s1"

HubOwner == "alice"

HubToken == "t1"

\* Who connects on which connection: the owner on v1, a spectator on v2.
HubUser(c) == IF c = "v1" THEN HubOwner ELSE "bob"

NextHub ==
    \/ (term_sessions[HubSession] = NoRow
        /\ CreateSession(HubOwner, "local", HubSession))
    \/ \E w \in Workers, mode \in PermissionModes :
           handleSessionShare(w, HubSession, HubOwner, TRUE, mode, HubToken)
    \/ \E w \in Workers, action \in {"set_mode", "grant", "revoke"},
          mode \in PermissionModes :
           handleSessionPermission(w, HubSession, HubOwner, action, mode, "bob")
    \/ \E c \in Conns : handleLiveWebSocket(c, HubToken, HubUser(c))
    \/ \E t \in Threads : HandlerReturn(t)
    \/ \E c \in Conns, ok \in BOOLEAN : Upgrade(c, ok)
    \/ \E t \in Threads : UpdatePermissionModeLock(t)
    \/ \E t \in Threads : UpdatePermissionModeRoom(t)
    \/ \E t \in Threads : UpdatePermissionModeBroadcast(t)
    \/ \E t \in Threads : PermissionLookup(t)
    \/ \E t \in Threads : GrantPermissionRoom(t)
    \/ \E t \in Threads : RevokePermissionRoom(t)
    \/ HubRegister
    \/ HubRegisterNotify
    \/ HubUnregister
    \/ HubBroadcast
    \/ \E c \in Conns : ReadInput(c)
    \/ \E c \in Conns : ReadInputRoom(c)
    \/ \E c \in Conns : ReadInputSend(c)
    \/ \E c \in Conns : ReadLoop(c)
    \/ \E c \in Conns : ReadClose(c)
    \/ \E c \in Conns : WritePump(c)

SpecHub == Init /\ [][NextHub]_vars

(***************************************************************************)
(* SpecBridge: one terminal connection with a new session, its pumps, the  *)
(* recording of its events, its cleanup and the replay read.               *)
(***************************************************************************)
BridgeUser == "alice"

\* A user other than the connection's.
OtherUser == "bob"

\* {"type": "resize", "data": {"rows": 1, "cols": 2}}
ValidResize == ResizeMessage("a", TRUE, Field(TRUE, 1), Field(TRUE, 2))

NextBridge ==
    \/ ClockStep
    \/ handleTerminalResolve(BridgeUser, "local", "")
    \/ \E ok \in BOOLEAN : handleTerminalStart(<<>>, FALSE, ok)
    \/ \E data \in Payloads, ok \in BOOLEAN : PtyRead(data, ok)
    \/ PtyReadError
    \/ BroadcastOutputLookup
    \/ \E f \in {TextFrame("a"), ValidResize} : WsRead(f)
    \/ \E ok \in BOOLEAN : WsHandle(ok)
    \/ WsReadError
    \/ \E i \in 1..MaxEvents : GoAddEvent(i)
    \/ \E k \in Callers : CleanupStart(k)
    \/ \E k \in Callers : CleanupEndSession(k)
    \/ \E k \in Callers : CleanupEndSessionUpdate(k)
    \/ \E id \in SessionIDs : GetSessionData(id)

SpecBridge == Init /\ [][NextBridge]_vars

(***************************************************************************)
(* SpecContainer: terminal connections in docker mode and the container    *)
(* they ask for.                                                           *)
(***************************************************************************)
ContainerUsers == {"alice", "Bob", "guest"}

\* The containers a client asks for: none, legacy and session containers
\* of the users, and a name outside every prefix.
Targets ==
    {<<>>, <<"x">>}
        \cup {legacyContainerName(u) : u \in ContainerUsers}
        \cup {buildContainerName(Runes(u), Runes("s1")) : u \in ContainerUsers}

NextContainer ==
    \/ \E u \in ContainerUsers, mode \in TermModes, id \in GenerateID :
           CreateSession(u, mode, id)
    \/ \E u \in ContainerUsers, mode \in TermModes, param \in SessionIDs \cup {""} :
           handleTerminalResolve(u, mode, param)
    \/ \E target \in Targets, built \in BOOLEAN, ok \in BOOLEAN :
           handleTerminalStart(target, built, ok)

SpecContainer == Init /\ [][NextContainer]_vars

(***************************************************************************)
(* SpecOutput: a terminal connection whose session is shared live: its     *)
(* output goes to the room's buffer and to the viewers.                    *)
(***************************************************************************)
OutputPayloadSet == {"a", "ab"}

NextOutput ==
    \/ handleTerminalResolve(HubOwner, "local", "")
    \/ handleTerminalStart(<<>>, FALSE, TRUE)
    \/ \E data \in OutputPayloadSet : PtyRead(data, TRUE)
    \/ BroadcastOutputLookup
    \/ BroadcastOutputRoom
    \/ \E i \in 1..MaxEvents : GoAddEvent(i)
    \/ \E w \in Workers :
           handleSessionShare(w, HubSession, HubOwner, TRUE, PermissionViewOnly, HubToken)
    \/ handleLiveWebSocket("v2", HubToken, HubUser("v2"))
    \/ Upgrade("v2", TRUE)
    \/ \E t \in Threads : UpdatePermissionModeLock(t)
    \/ \E t \in Threads : UpdatePermissionModeRoom(t)
    \/ \E t \in Threads : UpdatePermissionModeBroadcast(t)
    \/ HubRegister
    \/ HubRegisterNotify
    \/ HubUnregister
    \/ HubBroadcast
    \/ ReadClose("v2")
    \/ WritePump("v2")

SpecOutput == Init /\ [][NextOutput]_vars

(***************************************************************************)
(* SpecLive: session records, their end and their live sharing.            *)
(***************************************************************************)
NextLive ==
    \/ \E u \in Users, id \in GenerateID : CreateSession(u, "local", id)
    \/ \E c \in Callers, id \in SessionIDs : EndSessionLock(c, id)
    \/ \E c \in Callers : EndSessionUpdate(c)
    \/ \E id \in SessionIDs, mode \in PermissionModes, token \in GenerateShareToken :
           StartLiveSession(id, mode, token)
    \/ \E id \in SessionIDs : StopLiveSession(id)
    \/ \E id \in SessionIDs, mode \in PermissionModes : UpdatePermissionMode(id, mode)

SpecLive == Init /\ [][NextLive]_vars

(***************************************************************************)
(* SpecResume: a terminal connection that names a session to resume, next  *)
(* to sessions created, ended and shared by other requests.                *)
(***************************************************************************)
\* The session the connection may name; other requests act on it.
ResumeSession == "s1"

NextResume ==
    \/ \E u \in Users : CreateSession(u, "local", ResumeSession)
    \/ EndSessionLock(OtherCaller, ResumeSession)
    \/ EndSessionUpdate(OtherCaller)
    \/ StartLiveSession(ResumeSession, PermissionViewOnly, HubToken)
    \/ \E param \in {ResumeSession, ""} :
           handleTerminalResolve(BridgeUser, "local", param)
    \/ \E ok \in BOOLEAN : handleTerminalStart(<<>>, FALSE, ok)
    \/ \E ok \in BOOLEAN : PtyRead("a", ok)
    \/ PtyReadError
    \/ BroadcastOutputLookup
    \/ WsReadError
    \/ \E i \in 1..MaxEvents : GoAddEvent(i)
    \/ CleanupStart(CleanupCaller)
    \/ CleanupEndSession(CleanupCaller)
    \/ CleanupEndSessionUpdate(CleanupCaller)

SpecResume == Init /\ [][NextResume]_vars

(***************************************************************************)
(* SpecJoin: join requests for a session that is shared, stopped, shared   *)
(* again under a new token, and ended.                                     *)
(***************************************************************************)
NextJoin ==
    \/ (term_sessions[HubSession] = NoRow
        /\ CreateSession(HubOwner, "local", HubSession))
    \/ \E token \in GenerateShareToken :
           StartLiveSession(HubSession, PermissionViewOnly, token)
    \/ StopLiveSession(HubSession)
    \/ EndSessionLock(OtherCaller, HubSession)
    \/ EndSessionUpdate(OtherCaller)
    \/ \E w \in Workers, token \in Tokens : handleJoinLiveSession(w, token)
    \/ \E c \in Conns, token \in Tokens : handleLiveWebSocket(c, token, HubUser(c))
    \/ \E t \in Threads : HandlerReturn(t)
    \/ \E c \in Conns, ok \in BOOLEAN : Upgrade(c, ok)
    \/ \E t \in Threads : UpdatePermissionModeLock(t)
    \/ \E t \in Threads : UpdatePermissionModeRoom(t)
    \/ \E t \in Threads : UpdatePermissionModeBroadcast(t)
    \/ HubRegister
    \/ HubRegisterNotify
    \/ HubUnregister
    \/ HubBroadcast
    \/ \E c \in Conns : ReadClose(c)
    \/ \E c \in Conns : WritePump(c)

SpecJoin == Init /\ [][NextJoin]_vars

(***************************************************************************)
(* SpecGrant: a session shared in instructor mode; the owner grants and    *)
(* revokes through the API and through envelopes, a spectator sends        *)
(* envelopes too.                                                          *)
(***************************************************************************)
NextGrant ==
    \/ (term_sessions[HubSession] = NoRow
        /\ CreateSession(HubOwner, "local", HubSession))
    \/ \E w \in Workers :
           handleSessionShare(w, HubSession, HubOwner, TRUE, PermissionInstructor, HubToken)
    \/ \E w \in Workers, action \in {"grant", "revoke"} :
           handleSessionPermission(w, HubSession, HubOwner, action,
                                   PermissionInstructor, "bob")
    \/ \E c \in Conns : handleLiveWebSocket(c, HubToken, HubUser(c))
    \/ \E t \in Threads : HandlerReturn(t)
    \/ \E c \in Conns, ok \in BOOLEAN : Upgrade(c, ok)
    \/ \E t \in Threads : UpdatePermissionModeLock(t)
    \/ \E t \in Threads : UpdatePermissionModeRoom(t)
    \/ \E t \in Threads : UpdatePermissionModeBroadcast(t)
    \/ \E t \in Threads : PermissionLookup(t)
    \/ \E t \in Threads : GrantPermissionRoom(t)
    \/ \E t \in Threads : RevokePermissionRoom(t)
    \/ HubRegister
    \/ HubRegisterNotify
    \/ HubUnregister
    \/ HubBroadcast
    \/ \E c \in Conns, type \in {MsgTypePermissionGrant, MsgTypePermissionDeny} :
           ReadPermission(c, type, "bob")
    \/ \E c \in Conns : ReadLoop(c)
    \/ \E c \in Conns : ReadClose(c)
    \/ \E c \in Conns : WritePump(c)

SpecGrant == Init /\ [][NextGrant]_vars

(***************************************************************************)
(* SpecPumps: one terminal connection from its start to its cleanup.  The  *)
(* steps of the handler and of the goroutines it starts are taken as soon  *)
(* as they can be (the Go scheduler runs every runnable goroutine); what   *)
(* the shell writes and what the client sends, and whether the shell exits *)
(* or the client disconnects, is up to them.                               *)
(***************************************************************************)
NextPumps ==
    \/ handleTerminalResolve(BridgeUser, "local", "")
    \/ handleTerminalStart(<<>>, FALSE, TRUE)
    \/ PtyRead("a", TRUE)
    \/ PtyReadError
    \/ BroadcastOutputLookup
    \/ \E f \in {TextFrame("a"), ValidResize} : WsRead(f)
    \/ WsHandle(TRUE)
    \/ WsReadError
    \/ \E i \in 1..MaxEvents : GoAddEvent(i)
    \/ CleanupStart(CleanupCaller)
    \/ CleanupEndSession(CleanupCaller)
    \/ CleanupEndSessionUpdate(CleanupCaller)
    \/ ClockStep

\* The steps that need nothing from the shell or the client.
HandlerSteps ==
    \/ handleTerminalStart(<<>>, FALSE, TRUE)
    \/ BroadcastOutputLookup
    \/ \E i \in 1..MaxEvents : GoAddEvent(i)
    \/ CleanupStart(CleanupCaller)
    \/ CleanupEndSession(CleanupCaller)
    \/ CleanupEndSessionUpdate(CleanupCaller)

SpecPumps == Init /\ [][NextPumps]_vars /\ WF_vars(HandlerSteps)

(***************************************************************************)
(* SpecEnd: sessions created, shared live, ended by two callers at once    *)
(* and deleted.                                                            *)
(***************************************************************************)
NextEnd ==
    \/ ClockStep
    \/ \E id \in GenerateID : CreateSession(HubOwner, "local", id)
    \/ \E c \in Callers, id \in SessionIDs : EndSessionLock(c, id)
    \/ \E c \in Callers : EndSessionUpdate(c)
    \/ StartLiveSession(HubSession, PermissionViewOnly, HubToken)
    \/ \E id \in SessionIDs : handleSessionDelete(id, HubOwner)

SpecEnd == Init /\ [][NextEnd]_vars

(***************************************************************************)
(* SpecInput: the input pump of a terminal connection, with or without a   *)
(* session, and the frames a client can send.                              *)
(***************************************************************************)
\* "rows" and "cols" of a resize message: numbers, or a string.
InFields == {Field(TRUE, 0 - 1), Field(TRUE, 0), Field(TRUE, 1), Field(FALSE, 1)}

InFrames ==
    {TextFrame("a"), ValidResize,
     BinaryResizeMessage("b", TRUE, Field(TRUE, 1), Field(TRUE, 2)),
     ResizeMessage("b", FALSE, Field(FALSE, 1), Field(FALSE, 1))}
    \cup {ResizeMessage("b", TRUE, rows, Field(TRUE, 1)) : rows \in InFields}
    \cup {ResizeMessage("b", TRUE, Field(TRUE, 1), cols) : cols \in InFields}

NextInput ==
    \/ \E id \in GenerateID : CreateSession(OtherUser, "local", id)
    \/ handleTerminalResolve(BridgeUser, "local", "")
    \/ handleTerminalStart(<<>>, FALSE, TRUE)
    \/ \E f \in InFrames : WsRead(f)
    \/ \E ok \in BOOLEAN : WsHandle(ok)
    \/ WsReadError
    \/ \E i \in 1..MaxEvents : GoAddEvent(i)

SpecInput == Init /\ [][NextInput]_vars

(***************************************************************************)
(* SpecOrder: SpecOutput with a second terminal connection of the same     *)
(* session, whose output pump calls BroadcastOutput at the same time.      *)
(***************************************************************************)
NextOrder ==
    \/ handleTerminalResolve(HubOwner, "local", "")
    \/ handleTerminalStart(<<>>, FALSE, TRUE)
    \/ \E data \in OutputPayloadSet : PtyRead(data, TRUE)
    \/ BroadcastOutputLookup
    \/ BroadcastOutputRoom
    \/ \E i \in 1..MaxEvents : GoAddEvent(i)
    \/ \E w \in Workers :
           handleSessionShare(w, HubSession, HubOwner, TRUE, PermissionViewOnly, HubToken)
    \/ handleLiveWebSocket("v2", HubToken, HubUser("v2"))
    \/ Upgrade("v2", TRUE)
    \/ \E t \in Threads : UpdatePermissionModeLock(t)
    \/ \E t \in Threads : UpdatePermissionModeRoom(t)
    \/ \E t \in Threads : UpdatePermissionModeBroadcast(t)
    \/ HubRegister
    \/ HubRegisterNotify
    \/ HubUnregister
    \/ HubBroadcast
    \/ ReadClose("v2")
    \/ WritePump("v2")
    \/ OtherBroadcastOutput("w1", HubSession, "b")
    \/ BroadcastOutputLookupBy("w1")
    \/ BroadcastOutputRoomBy("w1")

SpecOrder == Init /\ [][NextOrder]_vars

(***************************************************************************)
(* SpecOwners: the live hub with connections that join one shared session  *)
(* as its owner or as somebody else, the owner possibly twice, and leave.  *)
(***************************************************************************)
NextOwners ==
    \/ (term_sessions[HubSession] = NoRow
        /\ CreateSession(HubOwner, "local", HubSession))
    \/ \E w \in Workers :
           handleSessionShare(w, HubSession, HubOwner, TRUE, PermissionSharedControl, HubToken)
    \/ \E c \in Conns, u \in {HubOwner, OtherUser} :
           handleLiveWebSocket(c, HubToken, u)
    \/ \E t \in Threads : HandlerReturn(t)
    \/ \E c \in Conns, ok \in BOOLEAN : Upgrade(c, ok)
    \/ \E t \in Threads : UpdatePermissionModeLock(t)
    \/ \E t \in Threads : UpdatePermissionModeRoom(t)
    \/ \E t \in Threads : UpdatePermissionModeBroadcast(t)
    \/ HubRegister
    \/ HubRegisterNotify
    \/ HubUnregister
    \/ HubBroadcast
    \/ \E c \in Conns : ReadClose(c)
    \/ \E c \in Conns : WritePump(c)

SpecOwners == Init /\ [][NextOwners]_vars

(***************************************************************************)
(* SpecPerm: a session shared in any mode; connections join it as its       *)
(* owner or as another user, that user possibly twice, while the owner     *)
(* grants and revokes write permission by name.                            *)
(***************************************************************************)
NextPerm ==
    \/ (term_sessions[HubSession] = NoRow
        /\ CreateSession(HubOwner, "local", HubSession))
    \/ \E w \in Workers, mode \in {PermissionSharedControl, PermissionInstructor} :
           handleSessionShare(w, HubSession, HubOwner, TRUE, mode, HubToken)
    \/ \E w \in Workers, action \in {"grant", "revoke"}, u \in {HubOwner, OtherUser} :
           handleSessionPermission(w, HubSession, HubOwner, action,
                                   PermissionInstructor, u)
    \/ \E c \in Conns, u \in {HubOwner, OtherUser} :
           handleLiveWebSocket(c, HubToken, u)
    \/ \E t \in Threads : HandlerReturn(t)
    \/ \E c \in Conns, ok \in BOOLEAN : Upgrade(c, ok)
    \/ \E t \in Threads : UpdatePermissionModeLock(t)
    \/ \E t \in Threads : UpdatePermissionModeRoom(t)
    \/ \E t \in Threads : UpdatePermissionModeBroadcast(t)
    \/ \E t \in Threads : PermissionLookup(t)
    \/ \E t \in Threads : GrantPermissionRoom(t)
    \/ \E t \in Threads : RevokePermissionRoom(t)
    \/ HubRegister
    \/ HubRegisterNotify
    \/ HubUnregister
    \/ HubBroadcast
    \/ \E c \in Conns : ReadClose(c)
    \/ \E c \in Conns : WritePump(c)

SpecPerm == Init /\ [][NextPerm]_vars

(***************************************************************************)
(* SpecLoop: the hub of SpecOwners with its loop scheduled: a step of the   *)
(* hub goroutine that can be taken is taken.  The requests, and what the    *)
(* connections do, are up to the clients.                                  *)
(***************************************************************************)
HubSteps ==
    \/ HubRegister
    \/ HubRegisterNotify
    \/ HubUnregister
    \/ HubBroadcast

SpecLoop == Init /\ [][NextOwners]_vars /\ WF_vars(HubSteps)

(***************************************************************************)
(* SpecStop: a terminal connection whose session is shared live and joined *)
(* by a viewer; with the viewer in the room the owner stops the sharing or *)
(* the session is ended through the API, and only then does the shell      *)
(* write.                                                                  *)
(***************************************************************************)
NextStop ==
    \/ handleTerminalResolve(HubOwner, "local", "")
    \/ handleTerminalStart(<<>>, FALSE, TRUE)
    \/ (/\ bridge # Idle
        /\ Stopped(bridge.activeSessID)
        /\ PtyRead("a", TRUE))
    \/ BroadcastOutputLookup
    \/ BroadcastOutputRoom
    \/ \E i \in 1..MaxEvents : GoAddEvent(i)
    \/ \E w \in Workers :
           /\ ~Stopped(HubSession)
           /\ handleSessionShare(w, HubSession, HubOwner, TRUE, PermissionViewOnly, HubToken)
    \/ \E w \in Workers :
           /\ InRoom("v2", HubSession)
           /\ handleSessionShare(w, HubSession, HubOwner, FALSE, PermissionViewOnly, HubToken)
    \/ (InRoom("v2", HubSession) /\ EndSessionLock(OtherCaller, HubSession))
    \/ EndSessionUpdate(OtherCaller)
    \/ handleLiveWebSocket("v2", HubToken, HubUser("v2"))
    \/ Upgrade("v2", TRUE)
    \/ \E t \in Threads : UpdatePermissionModeLock(t)
    \/ \E t \in Threads : UpdatePermissionModeRoom(t)
    \/ \E t \in Threads : UpdatePermissionModeBroadcast(t)
    \/ HubRegister
    \/ HubRegisterNotify
    \/ HubBroadcast
    \/ WritePump("v2")

SpecStop == Init /\ [][NextStop]_vars

(***************************************************************************)
(* SpecAttach: docker sessions of users whose names differ only in case,   *)
(* and terminal connections that ask for the containers of those sessions. *)
(***************************************************************************)
AttachTargets ==
    {<<>>} \cup {buildContainerName(Runes(u), Runes(id)) :
                    u \in AttachUsers, id \in SessionIDs}

NextAttach ==
    \/ \E u \in AttachUsers, id \in GenerateID : CreateSession(u, "docker", id)
    \/ \E u \in AttachUsers, param \in SessionIDs \cup {""} :
           handleTerminalResolve(u, "docker", param)
    \/ \E target \in AttachTargets, built \in BOOLEAN, ok \in BOOLEAN :
           handleTerminalStart(target, built, ok)
    \/ ClockStep

SpecAttach == Init /\ [][NextAttach]_vars

====
